---- MODULE Spec2Model ----
(***************************************************************************)
(* Model of openapi-mcpserver-generator: the tool compiler (generateTools,  *)
(* generateToolId, generateSchemabyComponent), the environment template    *)
(* (generateEnvExample) and the request path of the generated server       *)
(* (executeApiCall, log).                                                  *)
(*                                                                         *)
(* Representation.  A JavaScript string that the code converts (case       *)
(* mapping, regular-expression replacement, concatenation into an          *)
(* identifier) is a sequence of one-character strings.  A JavaScript       *)
(* object read by key is a record whose DOMAIN holds exactly the keys that *)
(* are present; an object the code iterates with Object.entries is a       *)
(* sequence of <<key, value>> pairs in declaration order.  A thrown        *)
(* exception is the result [ok |-> FALSE, error |-> ...].                  *)
(***************************************************************************)
EXTENDS Integers, Sequences, FiniteSets, TLC

\* ------------------------------------------------------------------ bounds

\* most path items in a document of the structural family
MaxPaths == 2
\* most parameters of the operation in a document of the merge family
MaxParams == 2
\* longest chain of component references C1 -> C2 -> ... in the component table
MaxDepth == 3
\* frames generateSchemabyComponent may nest before the engine raises RangeError
MaxStack == 6
\* most requests the handlers of the generated server take
MaxRequests == 2

\* ------------------------------------------------------------------ strings

Lowers ==
  <<"a","b","c","d","e","f","g","h","i","j","k","l","m",
    "n","o","p","q","r","s","t","u","v","w","x","y","z">>

Uppers ==
  <<"A","B","C","D","E","F","G","H","I","J","K","L","M",
    "N","O","P","Q","R","S","T","U","V","W","X","Y","Z">>

Digits == <<"0","1","2","3","4","5","6","7","8","9">>

Range(s) == {s[i] : i \in 1..Len(s)}

\* the upper-case letter of each lower-case letter
UpperOf == [c \in Range(Lowers) |-> Uppers[CHOOSE i \in 1..Len(Lowers) : Lowers[i] = c]]

\* the lower-case letter of each upper-case letter
LowerOf == [c \in Range(Uppers) |-> Lowers[CHOOSE i \in 1..Len(Uppers) : Uppers[i] = c]]

ToUpperChar(c) == IF c \in DOMAIN UpperOf THEN UpperOf[c] ELSE c

ToLowerChar(c) == IF c \in DOMAIN LowerOf THEN LowerOf[c] ELSE c

toUpperCase(s) == [i \in 1..Len(s) |-> ToUpperChar(s[i])]

toLowerCase(s) == [i \in 1..Len(s) |-> ToLowerChar(s[i])]

\* the character class [a-zA-Z0-9-]
IdChars == Range(Lowers) \cup Range(Uppers) \cup Range(Digits) \cup {"-"}

RECURSIVE StripLeadingSlashes(_)

\* a replacement that removes every leading slash
StripLeadingSlashes(s) ==
  IF Len(s) > 0 /\ s[1] = "/" THEN StripLeadingSlashes(Tail(s)) ELSE s

\* s.replace(/^\//, '')
StripLeadingSlash(s) == IF Len(s) > 0 /\ s[1] = "/" THEN Tail(s) ELSE s

IsNotBrace(c) == c \notin {"{", "}"}

\* s.replace(/[{}]/g, '')
RemoveBraces(s) == SelectSeq(s, IsNotBrace)

\* s.replace(/[^a-zA-Z0-9-]/g, '-')
DashOthers(s) == [i \in 1..Len(s) |-> IF s[i] \in IdChars THEN s[i] ELSE "-"]

\* ------------------------------------------------------------------ objects

Has(o, k) == k \in DOMAIN o

\* o[k] for a sequence of <<key, value>> pairs with distinct keys
HasKey(o, k) == \E i \in 1..Len(o) : o[i][1] = k

Get(o, k) == o[CHOOSE i \in 1..Len(o) : o[i][1] = k][2]

\* o[k] = v : an existing key keeps its position, a new key goes last
Put(o, k, v) ==
  IF HasKey(o, k)
    THEN [i \in 1..Len(o) |-> IF o[i][1] = k THEN <<k, v>> ELSE o[i]]
    ELSE Append(o, <<k, v>>)

Keys(o) == [i \in 1..Len(o) |-> o[i][1]]

Values(o) == [i \in 1..Len(o) |-> o[i][2]]

Ok(v) == [ok |-> TRUE, val |-> v]

Throw(e) == [ok |-> FALSE, error |-> e]

\* ------------------------------------------------------------------ tool ids

generateToolId(method, path) ==
  LET cleanPath == RemoveBraces(StripLeadingSlash(path))
  IN DashOthers(toUpperCase(method) \o <<"-">> \o cleanPath)

\* ------------------------------------------------------------------ schemas

\* a reference string, held as the segments fullPath.split("/") yields
Ref(name) == <<"#", "components", "schemas", name>>

\* fullPath.split("/").pop()
getComponentPath(fullPath) == fullPath[Len(fullPath)]

\* o[k] is truthy, for a key whose value is a sequence (string, reference, array)
Truthy(o, k) == Has(o, k) /\ o[k] # <<>>

\* a lookup that takes a component no table declares for an empty object schema
LookupComponentOrEmpty(spec, componentPath) ==
  IF Has(spec, "components") /\ Has(spec.components, "schemas")
       /\ Has(spec.components.schemas, componentPath)
    THEN Ok(spec.components.schemas[componentPath])
    ELSE Ok([type |-> "object", properties |-> <<>>])

\* spec.components?.schemas[componentPath], then the read of its `properties`:
\* an absent `schemas` throws TypeError at the lookup, an absent `components` or
\* component yields undefined and throws TypeError at `component.properties`
LookupComponent(spec, componentPath) ==
  IF ~Has(spec, "components") THEN Throw("TypeError")
  ELSE IF ~Has(spec.components, "schemas") THEN Throw("TypeError")
  ELSE IF ~Has(spec.components.schemas, componentPath) THEN Throw("TypeError")
  ELSE Ok(spec.components.schemas[componentPath])

\* the object literal { type: x.type || 'string', description: x.description || dflt }
TypeAndDescription(schema, description) ==
  [type |-> IF Has(schema, "type") THEN schema.type ELSE "string",
   description |-> description]

\* node.enum = schema.enum, when schema.enum is present
WithEnum(node, schema) ==
  IF Has(schema, "enum") THEN node @@ [enum |-> schema.enum] ELSE node

\* { type: itemsSchema.type }: the key is set even when the value is undefined
InlineItems(itemsSchema) ==
  [type |-> IF Has(itemsSchema, "type") THEN itemsSchema.type ELSE "undefined"]

RECURSIVE generateSchemabyComponent(_, _, _)
RECURSIVE ResolveProperties(_, _, _, _, _)

\* the `items` of an array-typed schema: a thrown TypeError when `items` is
\* absent, the resolved component when it is a reference, else its type alone
ResolveItems(spec, schema, stack) ==
  IF ~Has(schema, "items") THEN Throw("TypeError")
  ELSE IF Truthy(schema.items, "ref")
    THEN generateSchemabyComponent(spec, getComponentPath(schema.items.ref), stack + 1)
    ELSE Ok(InlineItems(schema.items))

\* node.items = items, then the enum; an exception of the resolution passes through
AttachItems(node, schema, items) ==
  IF items.ok THEN Ok(WithEnum(node @@ [items |-> items.val], schema)) ELSE items

\* the property built for a schema that is no reference: type and description,
\* `items` when the type is array, `enum` when present (the parameter merge of
\* generateTools builds its properties with the same statements)
SchemaNode(spec, schema, description, stack) ==
  IF Has(schema, "type") /\ schema.type = "array"
    THEN AttachItems(TypeAndDescription(schema, description), schema,
                     ResolveItems(spec, schema, stack))
    ELSE Ok(WithEnum(TypeAndDescription(schema, description), schema))

\* propSchema.description || `${propName} property`
PropertyDescription(propName, propSchema) ==
  IF Truthy(propSchema, "description")
    THEN propSchema.description
    ELSE <<propName, " property">>

\* a resolver without nested references: a reference-only property is treated
\* as a schema of its own, which declares nothing
ResolvePropertyWithoutNesting(spec, propName, propSchema, stack) ==
  SchemaNode(spec, propSchema, PropertyDescription(propName, propSchema), stack)

\* the value stored under propName: the resolved component of a reference-only
\* property, else the property's own node
ResolveProperty(spec, propName, propSchema, stack) ==
  IF Truthy(propSchema, "ref")
    THEN generateSchemabyComponent(spec, getComponentPath(propSchema.ref), stack + 1)
    ELSE SchemaNode(spec, propSchema,
                    PropertyDescription(propName, propSchema), stack)

\* toolInputSchema.properties[propName] = r, and on to entry i + 1
StoreProperty(spec, entries, i, properties, stack, r) ==
  IF r.ok
    THEN ResolveProperties(spec, entries, i + 1,
                           Put(properties, entries[i][1], r.val), stack)
    ELSE r

\* the loop over Object.entries(component.properties), from entry i on
ResolveProperties(spec, entries, i, properties, stack) ==
  IF i > Len(entries) THEN Ok(properties)
  ELSE StoreProperty(spec, entries, i, properties, stack,
                     ResolveProperty(spec, entries[i][1], entries[i][2], stack))

\* the resolved schema returned for a component whose properties resolved to
\* `properties`
ComponentSchema(component, properties) ==
  IF properties.ok
    THEN Ok([type |-> "object",
             properties |-> properties.val,
             required |-> IF Has(component, "required")
                            THEN component.required
                            ELSE <<>>])
    ELSE properties

\* the body of generateSchemabyComponent once the component is looked up
ResolveComponent(spec, component, stack) ==
  IF ~component.ok THEN component
  ELSE IF ~Has(component.val, "properties") THEN Throw("TypeError")
  ELSE ComponentSchema(
         component.val,
         ResolveProperties(spec, component.val.properties, 1, <<>>, stack))

\* `stack` counts the frames of this function that are live; past MaxStack the
\* engine throws RangeError (Maximum call stack size exceeded)
generateSchemabyComponent(spec, componentPath, stack) ==
  IF stack > MaxStack THEN Throw("RangeError")
  ELSE ResolveComponent(spec, LookupComponent(spec, componentPath), stack)

\* ------------------------------------------------------------------ tools

Null == [null |-> TRUE]

GET == <<"g","e","t">>
POST == <<"p","o","s","t">>
PUT == <<"p","u","t">>
DELETE == <<"d","e","l","e","t","e">>
PATCH == <<"p","a","t","c","h">>
OPTIONS == <<"o","p","t","i","o","n","s">>
HEAD == <<"h","e","a","d">>
PARAMETERS == <<"p","a","r","a","m","e","t","e","r","s">>

validMethods == {GET, POST, PUT, DELETE, PATCH, OPTIONS, HEAD}

\* a list of body verbs that takes in delete
bodyMethodsAndDelete == {POST, PUT, PATCH, DELETE}

bodyMethods == {POST, PUT, PATCH}

emptyInputSchema == [type |-> "object", properties |-> <<>>, required |-> <<>>]

\* param.schema, or a value without keys when the parameter has no schema
\* (every read of it goes through paramSchema?.x)
SchemaOf(param) == IF Has(param, "schema") THEN param.schema ELSE [undefined |-> TRUE]

\* param.description || `${param.name} parameter`
ParameterDescription(param) ==
  IF Truthy(param, "description")
    THEN param.description
    ELSE <<param.name, " parameter">>

\* tool.inputSchema.properties[param.name] = node and, for a required
\* parameter, tool.inputSchema.required.push(param.name)
StoreParameter(param, inputSchema, node) ==
  IF node.ok
    THEN Ok([inputSchema EXCEPT
               !.properties = Put(@, param.name, node.val),
               !.required = IF Has(param, "required") /\ param.required
                              THEN Append(@, param.name)
                              ELSE @])
    ELSE node

\* the presence test reduced to 'name' in param
MergeParameterNameOnly(spec, param, inputSchema) ==
  IF ~Has(param, "name") THEN Ok(inputSchema)
  ELSE StoreParameter(param, inputSchema,
                      SchemaNode(spec, SchemaOf(param), ParameterDescription(param), 0))

\* one iteration of the loop over op.parameters
MergeParameter(spec, param, inputSchema) ==
  IF ~(Has(param, "name") /\ Has(param, "in")) THEN Ok(inputSchema)
  ELSE StoreParameter(param, inputSchema,
                      SchemaNode(spec, SchemaOf(param), ParameterDescription(param), 0))

RECURSIVE MergeParameters(_, _, _, _)

\* the next iteration, unless this one threw
NextParameter(spec, parameters, i, r) ==
  IF r.ok THEN MergeParameters(spec, parameters, i + 1, r.val) ELSE r

\* the loop over op.parameters, from parameter i on
MergeParameters(spec, parameters, i, inputSchema) ==
  IF i > Len(parameters) THEN Ok(inputSchema)
  ELSE NextParameter(spec, parameters, i,
                     MergeParameter(spec, parameters[i], inputSchema))

RECURSIVE MergeBodyProperties(_, _, _)

\* the loop over Object.entries(bodySchema.properties), from entry i on
MergeBodyProperties(entries, i, properties) ==
  IF i > Len(entries) THEN properties
  ELSE MergeBodyProperties(
         entries, i + 1,
         Put(properties, entries[i][1],
             WithEnum(TypeAndDescription(
                        entries[i][2],
                        PropertyDescription(entries[i][1], entries[i][2])),
                      entries[i][2])))

\* a spread that keeps the required names collected so far
SpreadKeepingRequired(a, b) == [b EXCEPT !.required = a.required \o @] @@ a

RECURSIVE PutAll(_, _, _)

PutAll(o, entries, i) ==
  IF i > Len(entries) THEN o
  ELSE PutAll(Put(o, entries[i][1], entries[i][2]), entries, i + 1)

\* a property-level union in place of the spread
SpreadMergingProperties(a, b) ==
  [b EXCEPT !.properties = PutAll(a.properties, @, 1),
            !.required = a.required \o @] @@ a

\* { ...a, ...b }: every key of b, and the keys of a that b lacks
Spread(a, b) == b @@ a

\* the spread with its operands exchanged: {...resolved, ...tool.inputSchema}
ReplaceInputSchemaExistingWins(inputSchema, resolved) ==
  IF resolved.ok THEN Ok(Spread(resolved.val, inputSchema)) ELSE resolved

\* tool.inputSchema = {...tool.inputSchema, ...resolved}
ReplaceInputSchema(inputSchema, resolved) ==
  IF resolved.ok THEN Ok(Spread(inputSchema, resolved.val)) ELSE resolved

\* the merge of an application/json body schema
MergeBodySchema(spec, bodySchema, inputSchema) ==
  IF Has(bodySchema, "properties")
    THEN Ok([inputSchema EXCEPT
               !.properties = MergeBodyProperties(bodySchema.properties, 1, @),
               !.required = IF Has(bodySchema, "required")
                              THEN @ \o bodySchema.required
                              ELSE @])
  ELSE IF Truthy(bodySchema, "ref")
    THEN ReplaceInputSchema(
           inputSchema,
           generateSchemabyComponent(spec, getComponentPath(bodySchema.ref), 1))
  ELSE Ok(inputSchema)

\* the request-body block of generateTools
MergeRequestBody(spec, method, op, inputSchema) ==
  IF ~(toLowerCase(method) \in bodyMethods /\ Has(op, "requestBody"))
    THEN Ok(inputSchema)
  ELSE IF ~(Has(op.requestBody, "content")
            /\ Has(op.requestBody.content, "application/json")
            /\ Has(op.requestBody.content["application/json"], "schema"))
    THEN Ok(inputSchema)
  ELSE MergeBodySchema(spec, op.requestBody.content["application/json"].schema,
                       inputSchema)

\* the request-body block, reached unless the parameter merge threw
ThenRequestBody(spec, method, op, merged) ==
  IF merged.ok THEN MergeRequestBody(spec, method, op, merged.val) ELSE merged

\* a choice that takes an empty list of requirements for an absent one
SecurityOfNonEmpty(spec, op) ==
  IF Has(op, "security") /\ op.security # <<>> THEN op.security
  ELSE IF Has(spec, "security") /\ spec.security # <<>> THEN spec.security
  ELSE <<>>

\* op.security || spec.security || []
SecurityOf(spec, op) ==
  IF Has(op, "security") THEN op.security
  ELSE IF Has(spec, "security") THEN spec.security
  ELSE <<>>

\* a choice that prefers the summary to the operationId
ToolNameSummaryFirst(method, path, op) ==
  IF Truthy(op, "summary") THEN op.summary
  ELSE IF Truthy(op, "operationId") THEN op.operationId
  ELSE toUpperCase(method) \o <<" ">> \o path

\* op.operationId || op.summary || `${method.toUpperCase()} ${path}`
ToolName(method, path, op) ==
  IF Truthy(op, "operationId") THEN op.operationId
  ELSE IF Truthy(op, "summary") THEN op.summary
  ELSE toUpperCase(method) \o <<" ">> \o path

\* op.description || `Make a ${method.toUpperCase()} request to ${path}`
ToolDescription(method, path, op) ==
  IF Truthy(op, "description") THEN op.description
  ELSE <<"Make a ">> \o toUpperCase(method) \o <<" request to ">> \o path

\* the tool object, with the input schema the two merges left
ToolOf(spec, path, method, op, inputSchema) ==
  IF inputSchema.ok
    THEN Ok([id |-> generateToolId(method, path),
             name |-> ToolName(method, path, op),
             description |-> ToolDescription(method, path, op),
             method |-> toUpperCase(method),
             path |-> path,
             inputSchema |-> inputSchema.val,
             security |-> SecurityOf(spec, op)])
    ELSE inputSchema

\* the body of the inner loop of generateTools for an entry that is not
\* skipped: the tool pushed to toolList, or the exception that leaves the loop
BuildTool(spec, path, method, op) ==
  ToolOf(spec, path, method, op,
         ThenRequestBody(
           spec, method, op,
           MergeParameters(spec,
                           IF Has(op, "parameters") THEN op.parameters ELSE <<>>,
                           1, emptyInputSchema)))

\* a loop head that skips the `parameters` key and null values only
SkipParametersOnly(method, operation) ==
  \/ method = PARAMETERS
  \/ operation = Null

\* the three `continue` conditions at the head of the inner loop
SkipEntry(method, operation) ==
  \/ method = PARAMETERS
  \/ operation = Null
  \/ toLowerCase(method) \notin validMethods

\* spec.components?.securitySchemes || {}
SecuritySchemesOf(spec) ==
  IF Has(spec, "components") /\ Has(spec.components, "securitySchemes")
    THEN spec.components.securitySchemes
    ELSE <<>>

\* ------------------------------------------------------------------ documents

\* names of the chained components: ChainNames[i] refers to ChainNames[i + 1]
ChainNames == <<"C1", "C2", "C3", "C4", "C5">>

ChainComponent(i) ==
  IF i < MaxDepth
    THEN [type |-> "object",
          properties |-> << <<"next", [ref |-> Ref(ChainNames[i + 1])]>>,
                            <<"list", [type |-> "array",
                                       items |-> [ref |-> Ref(ChainNames[i + 1])]]>> >>]
    ELSE [type |-> "object",
          properties |-> << <<"leaf", [type |-> "integer"]>> >>,
          required |-> <<"leaf">>]

Pet ==
  [type |-> "object",
   properties |-> << <<"name", [type |-> "string"]>>,
                     <<"tag", [description |-> <<"a label">>]>> >>,
   required |-> <<"name">>]

Order ==
  [type |-> "object",
   properties |-> << <<"pet", [ref |-> Ref("Pet")]>>,
                     <<"pets", [type |-> "array", items |-> [ref |-> Ref("Pet")]]>>,
                     <<"ids", [type |-> "array", items |-> [type |-> "integer"]]>>,
                     <<"status", [type |-> "string", enum |-> <<"placed", "sent">>]>> >>,
   required |-> <<"pet", "status">>]

\* a component that is no object schema: it declares no properties
Status == [type |-> "string", enum |-> <<"placed", "sent">>]

\* a schema whose required list names a property it does not declare
Loose ==
  [type |-> "object",
   properties |-> << <<"name", [type |-> "string"]>> >>,
   required |-> <<"name", "ghost">>]

\* a component that refers to itself
Node ==
  [type |-> "object",
   properties |-> << <<"next", [ref |-> Ref("Node")]>> >>]

\* two components that refer to each other
Ping ==
  [type |-> "object",
   properties |-> << <<"id", [type |-> "integer"]>>,
                     <<"pong", [ref |-> Ref("Pong")]>> >>]

Pong ==
  [type |-> "object",
   properties |-> << <<"pings", [type |-> "array", items |-> [ref |-> Ref("Ping")]]>> >>]

\* a component with a property that refers to a component no table declares
Broken ==
  [type |-> "object",
   properties |-> << <<"name", [type |-> "string"]>>,
                     <<"owner", [ref |-> Ref("Missing")]>> >>,
   required |-> <<"name">>]

\* components.schemas of the documents; no component is named "Missing"
Schemas ==
  [n \in {"Pet", "Order", "Status", "Loose", "Node", "Ping", "Pong", "Broken"}
         \cup {ChainNames[i] : i \in 1..MaxDepth} |->
     CASE n = "Pet" -> Pet
       [] n = "Order" -> Order
       [] n = "Status" -> Status
       [] n = "Loose" -> Loose
       [] n = "Node" -> Node
       [] n = "Ping" -> Ping
       [] n = "Pong" -> Pong
       [] n = "Broken" -> Broken
       [] OTHER -> ChainComponent(CHOOSE i \in 1..MaxDepth : ChainNames[i] = n)]

SchemeK == <<"m","y","_","k">>

SchemeB == <<"b","A">>

SchemeMenu ==
  << <<SchemeK, [type |-> "apiKey", name |-> <<"x","-","k">>, in |-> "header"]>>,
     <<SchemeB, [type |-> "http", scheme |-> "bearer"]>> >>

Components == [schemas |-> Schemas, securitySchemes |-> SchemeMenu]

\* ---- parameters of the merge family

ParamMenu ==
  { [name |-> "petId", in |-> "path", required |-> TRUE, schema |-> [type |-> "string"]],
    [name |-> "name", in |-> "query", required |-> TRUE],
    [name |-> "limit", in |-> "query", required |-> FALSE, description |-> <<"page size">>,
     schema |-> [type |-> "integer", enum |-> <<"10", "20">>]],
    [name |-> "tags", in |-> "query",
     schema |-> [type |-> "array", items |-> [type |-> "string"]]],
    [name |-> "pets", in |-> "query", required |-> TRUE,
     schema |-> [type |-> "array", items |-> [ref |-> Ref("Pet")]]],
    [name |-> "orphan", required |-> TRUE, schema |-> [type |-> "string"]],
    [in |-> "query", required |-> TRUE, schema |-> [type |-> "string"]],
    [name |-> "bare", in |-> "query", schema |-> [type |-> "array"]] }

RECURSIVE SeqsUpTo(_, _)

\* the sequences over S of length at most n
SeqsUpTo(S, n) ==
  IF n = 0 THEN {<<>>}
  ELSE LET shorter == SeqsUpTo(S, n - 1)
       IN shorter \cup {Append(q, x) : q \in shorter, x \in S}

JsonBody(schema) ==
  [content |-> ("application/json" :> [schema |-> schema])]

\* request bodies of the merge family
BodyMenu ==
  { JsonBody([type |-> "object",
              properties |-> << <<"name", [type |-> "string"]>>,
                                <<"tag", [type |-> "string"]>> >>,
              required |-> <<"name">>]),
    JsonBody([type |-> "object",
              properties |-> << <<"photos", [type |-> "array",
                                             items |-> [type |-> "string"]]>>,
                                <<"kind", [enum |-> <<"cat", "dog">>]>> >>]),
    JsonBody(Loose),
    JsonBody([type |-> "string"]),
    [content |-> ("application/xml" :> [schema |-> [ref |-> Ref("Pet")]])],
    [description |-> <<"no content">>] }
  \cup {JsonBody([ref |-> Ref(n)]) :
          n \in {"Pet", "Order", "Status", "Loose", "Node", "Ping", "Broken", "Missing"}
                \cup {ChainNames[i] : i \in 1..MaxDepth}}

\* ---- operations

OpPlain == [responses |-> "default"]

OpBodies == {[requestBody |-> b] : b \in BodyMenu} \cup {OpPlain}

\* operations of the merge family: parameters and a request body
MergeOps ==
  {IF Len(ps) = 0 THEN o ELSE o @@ [parameters |-> ps] :
     ps \in SeqsUpTo(ParamMenu, MaxParams), o \in OpBodies}

\* a security requirement is the sequence of its scheme names (its keys)
SecurityMenu ==
  {<< <<SchemeK>> >>, << <<SchemeK, SchemeB>> >>, << <<SchemeK>>, <<SchemeB>> >>, <<>>}

\* operations of the naming family: name, description and security
NamingOps ==
  {a @@ b @@ c @@ d @@ OpPlain :
     a \in {[operationId |-> <<"o","p">>], [operationId |-> <<>>], OpPlain},
     b \in {[summary |-> <<"s","u","m">>], [summary |-> <<>>], OpPlain},
     c \in {[description |-> <<"text">>], OpPlain},
     d \in {[security |-> x] : x \in SecurityMenu} \cup {OpPlain}}

\* ---- path items of the structural family

PathNames == { <<"/","a","/","{","b","}">>, <<"/","a","-","b">>, <<"/","c">> }

TRACE == <<"t","r","a","c","e">>

\* Object.entries(pathItem), in declaration order
Item(entries) == [entries |-> entries]

PathItemMenu ==
  { Item(<<>>),
    Item(<< <<GET, OpPlain>> >>),
    Item(<< <<GET, OpPlain>>, <<POST, OpPlain>> >>),
    Item(<< <<POST, OpPlain>>, <<GET, OpPlain>> >>),
    Item(<< <<PARAMETERS, [array |-> <<>>]>>, <<DELETE, OpPlain>> >>),
    Item(<< <<TRACE, OpPlain>>, <<PUT, OpPlain>> >>),
    Item(<< <<GET, Null>>, <<PATCH, OpPlain>> >>),
    Item(<< <<toUpperCase(GET), OpPlain>> >>),
    Item(<< <<OPTIONS, OpPlain>>, <<HEAD, OpPlain>> >>),
    Item(<< <<<<"s","u","m","m","a","r","y">>, [string |-> <<"pets">>]>>,
            <<<<"s","e","r","v","e","r","s">>, [array |-> <<>>]>>,
            <<HEAD, OpPlain>>,
            <<<<"x","-","i","n","t","e","r","n","a","l">>, [boolean |-> TRUE]>> >>),
    Item(<< <<GET, [parameters |-> << [name |-> "orphan", required |-> TRUE],
                                      [name |-> "petId", in |-> "path",
                                       required |-> TRUE] >>]>>,
            <<DELETE, OpPlain>> >>),
    Item(<< <<GET, OpPlain>>,
            <<POST, [requestBody |-> JsonBody([ref |-> Ref("Missing")])]>>,
            <<PUT, OpPlain>> >>),
    Null }

\* the sequences of at most n path entries with distinct path templates
RECURSIVE PathsUpTo(_)

PathsUpTo(n) ==
  IF n = 0 THEN {<<>>}
  ELSE LET shorter == PathsUpTo(n - 1)
       IN shorter \cup
          {Append(q, <<p, item>>) :
             q \in {r \in shorter : Len(r) = n - 1},
             p \in PathNames, item \in PathItemMenu}

DistinctPaths(paths) ==
  \A i, j \in 1..Len(paths) : paths[i][1] = paths[j][1] => i = j

\* documents with several path items of fixed shapes
StructureDocs ==
  {[paths |-> ps, components |-> Components] :
     ps \in {q \in PathsUpTo(MaxPaths) : DistinctPaths(q)}}

\* documents with one operation: every parameter list with every request body
MergeDocs ==
  {[paths |-> << <<p, Item(<< <<m, o>> >>)>> >>, components |-> Components] :
     p \in {<<"/","a","/","{","b","}">>},
     m \in {GET, DELETE, OPTIONS, HEAD, POST, PUT, PATCH},
     o \in MergeOps}

\* documents with one operation: every naming and security declaration
NamingDocs ==
  {d @@ [paths |-> << <<p, Item(<< <<GET, o>> >>)>> >>] :
     p \in {<<"/","c">>},
     o \in NamingOps,
     d \in {[components |-> Components],
            [components |-> Components, security |-> << <<SchemeB>> >>],
            [security |-> <<>>],
            [components |-> [schemas |-> Schemas]]}}

\* path templates of the identifier family: two leading slashes, no leading
\* slash, several placeholders, characters outside [A-Za-z0-9-], the root
IdPaths ==
  { <<"/","/","x">>, <<"p","e","t","s">>, <<"/","{","x","}","/","{","y","}">>,
    <<"/","a","_","b","/","{","c","}",".","d">>, <<"/","P","9","-","~"," ","/">>, <<"/">> }

\* documents with one operation under every verb, the verb also capitalized
IdDocs ==
  {[paths |-> << <<p, Item(<< <<m, OpPlain>> >>)>> >>] :
     p \in IdPaths,
     m \in validMethods \cup {<<"G","e","t">>, <<"P","o","S","T">>}}

\* a component table in which every reference names a declared component
SoundSchemas == [n \in DOMAIN Schemas \ {"Broken"} |-> Schemas[n]]

\* documents over that table, with one operation: a body that refers to an
\* object component, to a component without properties, to a cyclic one, or
\* an array parameter without items
ShapeDocs ==
  {[paths |-> << <<<<"/","c">>, Item(<< <<POST, o>> >>)>> >>,
    components |-> [schemas |-> SoundSchemas]] :
     o \in {[requestBody |-> JsonBody([ref |-> Ref(n)])] : n \in {"Order", "Status", "Ping"}}
           \cup {[parameters |-> << [name |-> "bare", in |-> "query",
                                     schema |-> [type |-> "array"]] >>]}}

\* documents without `paths`
NoPathDocs ==
  {[components |-> Components], [info |-> "untitled"],
   [components |-> Components, security |-> << <<SchemeB>> >>]}

Documents ==
  StructureDocs \cup MergeDocs \cup NamingDocs \cup IdDocs \cup ShapeDocs \cup NoPathDocs

\* ------------------------------------------------------------------ documents with security schemes

my_api_key == <<"m","y","_","a","p","i","_","k","e","y">>

api_key == <<"a","p","i","_","k","e","y">>

basicAuth == <<"b","a","s","i","c","A","u","t","h">>

\* an apiKey scheme sent as a query parameter
SchemeQ == <<"q","K">>

\* a scheme of a type that takes no environment variable
SchemeO == <<"o","2">>

\* a scheme name no table declares
SchemeZ == <<"z","z">>

ApiKeyTable ==
  << <<my_api_key, [type |-> "apiKey", name |-> api_key, in |-> "header"]>>,
     <<basicAuth, [type |-> "http", scheme |-> "basic"]>>,
     <<SchemeB, [type |-> "http", scheme |-> "bearer"]>> >>

QueryTable ==
  << <<SchemeQ, [type |-> "apiKey", name |-> <<"k">>, in |-> "query"]>>,
     <<SchemeO, [type |-> "oauth2"]>>,
     <<SchemeB, [type |-> "http", scheme |-> "bearer"]>> >>

\* a second scheme of a type that takes no environment variable
SchemeI == <<"o","i">>

\* a table of such schemes only
FlowTable ==
  << <<SchemeO, [type |-> "oauth2"]>>,
     <<SchemeI, [type |-> "openIdConnect"]>> >>

\* an apiKey scheme that declares no `name`
NamelessTable == << <<SchemeK, [type |-> "apiKey", in |-> "header"]>> >>

Secured(security) == [security |-> security] @@ OpPlain

PathAB == <<"/","a","/","{","b","}">>

PathDash == <<"/","a","-","b">>

PathC == <<"/","c">>

ServerDocs ==
  { [paths |-> << <<PathAB, Item(<< <<GET, Secured(<< <<my_api_key>> >>)>>,
                                    <<POST, Secured(<< <<basicAuth>>, <<SchemeB>> >>)>> >>)>> >>,
     components |-> [securitySchemes |-> ApiKeyTable]],
    [paths |-> << <<PathDash, Null>>,
                  <<PathC, Item(<< <<PARAMETERS, [array |-> <<>>]>>,
                                   <<DELETE, OpPlain>>,
                                   <<GET, Secured(<< <<SchemeO>>, <<SchemeZ>> >>)>> >>)>> >>,
     components |-> [securitySchemes |-> QueryTable],
     security |-> << <<SchemeQ, SchemeB>> >>],
    [paths |-> << <<PathAB, Item(<< <<GET, Secured(<< <<basicAuth, my_api_key>> >>)>> >>)>>,
                  <<PathDash, Item(<< <<GET, Secured(<< <<SchemeB>> >>)>> >>)>> >>,
     components |-> [securitySchemes |-> ApiKeyTable]],
    [components |-> [securitySchemes |-> ApiKeyTable]],
    [paths |-> << <<PathC, Item(<< <<GET, OpPlain>> >>)>> >>,
     components |-> [securitySchemes |-> NamelessTable]],
    [paths |-> << <<PathC, Item(<< <<GET, OpPlain>>,
                                   <<POST, [requestBody |->
                                              JsonBody([ref |-> Ref("Missing")])]>> >>)>> >>,
     components |-> [schemas |-> Schemas]],
    [paths |-> << <<PathC, Item(<< <<GET, OpPlain>> >>)>>,
                  <<PathDash,
                    Item(<< <<PUT, [requestBody |-> JsonBody([ref |-> Ref("Broken")])]>>,
                            <<DELETE, OpPlain>> >>)>> >>,
     components |-> [schemas |-> Schemas, securitySchemes |-> ApiKeyTable]],
    [paths |-> << <<PathAB,
                    Item(<< <<GET, [parameters |->
                                      << [name |-> "owners", in |-> "query",
                                          schema |-> [type |-> "array",
                                                      items |-> [ref |-> Ref("Missing")]]] >>]>> >>)>> >>],
    [paths |-> << <<PathC, Item(<< <<POST, [requestBody |-> JsonBody([ref |-> Ref("Pet")])]>> >>)>> >>],
    [paths |-> << <<PathC, Item(<< <<GET, Secured(<< <<SchemeO, SchemeI>> >>)>> >>)>>,
                  <<PathAB, Item(<< <<POST, Secured(<< <<SchemeI>> >>)>>,
                                    <<OPTIONS, OpPlain>> >>)>> >>,
     components |-> [securitySchemes |-> FlowTable]] }

\* ---- process.env of the generated server

API_BASE_URL == <<"A","P","I","_","B","A","S","E","_","U","R","L">>

API_HEADERS == <<"A","P","I","_","H","E","A","D","E","R","S">>

SERVER_NAME == <<"S","E","R","V","E","R","_","N","A","M","E">>

SERVER_VERSION == <<"S","E","R","V","E","R","_","V","E","R","S","I","O","N">>

TRANSPORT == <<"T","R","A","N","S","P","O","R","T">>

DEBUG == <<"D","E","B","U","G">>

BEARERTOKEN == <<"B","E","A","R","E","R","T","O","K","E","N">>

USERNAME == <<"U","S","E","R","N","A","M","E">>

PASSWORD == <<"P","A","S","S","W","O","R","D">>

Authorization == <<"A","u","t","h","o","r","i","z","a","t","i","o","n">>

\* the credential variables a user may have set, with the values set
CredentialMenu ==
  << <<<<"M","Y","_","A","P","I","_","K","E","Y","_","A","P","I","_","K","E","Y">>, <<"k","1">>>>,
     <<<<"B","A","S","I","C","A","U","T","H","_","U","S","E","R","N","A","M","E">>, <<"u">>>>,
     <<<<"B","A","S","I","C","A","U","T","H","_","P","A","S","S","W","O","R","D">>, <<"p">>>>,
     <<<<"B","A","_","B","E","A","R","E","R","T","O","K","E","N">>, <<"t">>>>,
     <<<<"Q","K","_","K">>, <<"k","2">>>>,
     <<<<"m","y","_","a","p","i","_","k","e","y","_","a","p","i","_","k","e","y">>, <<"k","3">>>>,
     <<<<"B","A","S","I","C","A","U","T","H","_","P","A","S","S","W","O","R","D">>, <<>> >> >>

\* the other variables the server reads: none set, or a base URL, or a base
\* URL with debugging and static headers
SettingsMenu ==
  << <<>>,
    << <<API_BASE_URL, <<"h","t","t","p",":","/","/","h","/","v","1">>>> >>,
    << <<API_BASE_URL, <<"h","t","t","p",":","/","/","h","/">>>>, <<DEBUG, <<"t","r","u","e">>>>,
       <<API_HEADERS, <<"A","u","t","h","o","r","i","z","a","t","i","o","n",":"," ","s",":","1",","," ","a","p","i","_","k","e","y"," ",":","v",",","X">>>> >> >>

CredentialIndex == <<1, 2, 3, 4, 5, 6, 7>>

ChosenCredentials(S) == SelectSeq(CredentialIndex, LAMBDA n : n \in S)

CredentialsOf(chosen) == [i \in 1..Len(chosen) |-> CredentialMenu[chosen[i]]]

\* the environments: settings with every credential, with none, with one
\* missing, with an empty password, with a variable of the declared case only
EnvChoices ==
  ({2, 3} \X ({{}, 1..5} \cup {(1..5) \ {n} : n \in 1..4}))
    \cup {<<1, 1..5>>, <<2, {1, 2, 7, 4, 5}>>, <<2, {1, 2, 5}>>, <<3, {6}>>}

EnvMenu ==
  {SettingsMenu[choice[1]] \o CredentialsOf(ChosenCredentials(choice[2])) :
     choice \in EnvChoices}

\* ------------------------------------------------------------------ generateTools

VARIABLES
  spec,        \* the loaded document
  pc,          \* "start", "loop", "returned" or "threw"
  pathIdx,     \* position of the outer loop in Object.entries(spec.paths)
  methodIdx,   \* position of the inner loop in Object.entries(pathItem)
  toolList,    \* the local toolList
  toolMapObj,  \* the local toolMapObj, as <<id, tool>> pairs in insertion order
  warnings,    \* the console.warn calls so far
  result       \* what the call handed to its caller

compileVars == <<spec, pc, pathIdx, methodIdx, toolList, toolMapObj, warnings, result>>

VARIABLES
  stage,             \* "compile", "writing", "written", "failed" or "serving"
  envExample,        \* the lines of the .env.example written
  files,             \* the names of the files written into the output directory
  outputDir,         \* the content of each file written into the output directory
  writes,            \* the state of each write main issued: "pending", "done",
                     \* "failed", or "cut" when the process exited before it ended
  report,            \* what main printed last and the exit code of the process
  readme,            \* the tool sections of the README.md written
  typeDefinitions,   \* the entries of APITools in the types.d.ts written
  TOOLS,             \* the TOOLS constant of the server.js written
  SECURITY_SCHEMES,  \* the SECURITY_SCHEMES constant of the server.js written
  env                \* process.env of the generated server, as <<name, value>> pairs

generated ==
  <<stage, envExample, files, outputDir, writes, report, readme, typeDefinitions, TOOLS,
    SECURITY_SCHEMES>>

VARIABLES
  isConnected,  \* this.isConnected
  debug,        \* this.debug
  level,        \* request.params.level of the last logging/setLevel request
  baseUrl,      \* this.baseUrl
  headers,      \* this.headers
  tools,        \* this.tools, as <<id, tool>> pairs in insertion order
  logged,       \* the calls of log() so far
  sentLogs,     \* the calls of server.sendLoggingMessage so far
  envReads,     \* the credential names looked up in process.env so far
  pending,      \* the requests axios has not settled yet
  requests,     \* the requests handed to axios so far
  replies,      \* what the handlers returned to the client so far
  received      \* how many client messages the handlers have taken

serving ==
  <<isConnected, debug, level, baseUrl, headers, tools, logged, sentLogs, envReads,
    pending, requests, replies, received>>

serverVars == <<generated, env, serving>>

vars == <<compileVars, serverVars>>

Running == [status |-> "running"]

\* generateTools is entered with one of the documents
InitCompile(documents) ==
  /\ spec \in documents
  /\ pc = "start"
  /\ pathIdx = 1
  /\ methodIdx = 1
  /\ toolList = <<>>
  /\ toolMapObj = <<>>
  /\ warnings = <<>>
  /\ result = Running

\* nothing is written yet and no server runs
InitServing ==
  /\ stage = "compile"
  /\ envExample = <<>>
  /\ files = {}
  /\ outputDir = <<>>
  /\ writes = <<>>
  /\ report = Running
  /\ readme = <<>>
  /\ typeDefinitions = <<>>
  /\ TOOLS = <<>>
  /\ SECURITY_SCHEMES = <<>>
  /\ env = <<>>
  /\ isConnected = FALSE
  /\ debug = FALSE
  /\ level = "unset"
  /\ baseUrl = <<>>
  /\ headers = <<>>
  /\ tools = <<>>
  /\ logged = <<>>
  /\ sentLogs = <<>>
  /\ envReads = {}
  /\ pending = <<>>
  /\ requests = <<>>
  /\ replies = <<>>
  /\ received = 0

Init == InitCompile(Documents) /\ InitServing

\* loadOpenAPISpec handed back nothing: generateTools is never entered
InitUnloaded ==
  /\ spec = Null
  /\ pc = "unloaded"
  /\ pathIdx = 1
  /\ methodIdx = 1
  /\ toolList = <<>>
  /\ toolMapObj = <<>>
  /\ warnings = <<>>
  /\ result = Running

InitServer == (InitCompile(ServerDocs) \/ InitUnloaded) /\ InitServing

\* the tools read back from the id-keyed map
ReturnedFromMap ==
  [status |-> "returned",
   tools |-> Values(toolMapObj),
   toolMap |-> toolMapObj,
   securitySchemes |-> SecuritySchemesOf(spec)]

Returned ==
  [status |-> "returned",
   tools |-> toolList,
   toolMap |-> toolMapObj,
   securitySchemes |-> SecuritySchemesOf(spec)]

\* the guard left out: Object.entries(undefined) throws
ThrowNoPaths ==
  /\ pc = "start"
  /\ ~Has(spec, "paths")
  /\ result' = [status |-> "threw", error |-> "TypeError"]
  /\ pc' = "threw"
  /\ UNCHANGED <<spec, pathIdx, methodIdx, toolList, toolMapObj, warnings>>
  /\ UNCHANGED serverVars

\* if (!spec.paths) { console.warn(...); return {...} }
ReturnNoPaths ==
  /\ pc = "start"
  /\ ~Has(spec, "paths")
  /\ warnings' = Append(warnings, "No paths found in OpenAPI specification")
  /\ result' = Returned
  /\ pc' = "returned"
  /\ UNCHANGED <<spec, pathIdx, methodIdx, toolList, toolMapObj>>
  /\ UNCHANGED serverVars

\* the document has paths: the outer loop starts
EnterLoop ==
  /\ pc = "start"
  /\ Has(spec, "paths")
  /\ pc' = "loop"
  /\ UNCHANGED <<spec, pathIdx, methodIdx, toolList, toolMapObj, warnings, result>>
  /\ UNCHANGED serverVars

\* toolList.push(tool); toolMapObj[toolId] = tool, or the exception thrown
\* while the tool was built leaves generateTools
FinishEntry(built) ==
  \/ /\ built.ok
     /\ toolList' = Append(toolList, built.val)
     /\ toolMapObj' = Put(toolMapObj, built.val.id, built.val)
     /\ methodIdx' = methodIdx + 1
     /\ UNCHANGED <<pc, result>>
  \/ /\ ~built.ok
     /\ result' = [status |-> "threw", error |-> built.error]
     /\ pc' = "threw"
     /\ UNCHANGED <<methodIdx, toolList, toolMapObj>>

\* one iteration of the inner loop: the entry is skipped, or its tool is pushed
\* and stored under its id, or an exception leaves generateTools
StepEntry ==
  /\ pc = "loop"
  /\ pathIdx <= Len(spec.paths)
  /\ spec.paths[pathIdx][2] # Null
  /\ methodIdx <= Len(spec.paths[pathIdx][2].entries)
  /\ \/ /\ SkipEntry(spec.paths[pathIdx][2].entries[methodIdx][1],
                     spec.paths[pathIdx][2].entries[methodIdx][2])
        /\ methodIdx' = methodIdx + 1
        /\ UNCHANGED <<pc, toolList, toolMapObj, result>>
     \/ /\ ~SkipEntry(spec.paths[pathIdx][2].entries[methodIdx][1],
                      spec.paths[pathIdx][2].entries[methodIdx][2])
        /\ FinishEntry(BuildTool(spec,
                                 spec.paths[pathIdx][1],
                                 spec.paths[pathIdx][2].entries[methodIdx][1],
                                 spec.paths[pathIdx][2].entries[methodIdx][2]))
  /\ UNCHANGED <<spec, pathIdx, warnings>>
  /\ UNCHANGED serverVars

\* the inner loop is over (or `if (!pathItem) continue`): the next path item
NextPathItem ==
  /\ pc = "loop"
  /\ pathIdx <= Len(spec.paths)
  /\ \/ spec.paths[pathIdx][2] = Null
     \/ /\ spec.paths[pathIdx][2] # Null
        /\ methodIdx > Len(spec.paths[pathIdx][2].entries)
  /\ pathIdx' = pathIdx + 1
  /\ methodIdx' = 1
  /\ UNCHANGED <<spec, pc, toolList, toolMapObj, warnings, result>>
  /\ UNCHANGED serverVars

\* return { tools: toolList, toolMap: toolMapObj, securitySchemes }
ReturnTools ==
  /\ pc = "loop"
  /\ pathIdx > Len(spec.paths)
  /\ result' = Returned
  /\ pc' = "returned"
  /\ UNCHANGED <<spec, pathIdx, methodIdx, toolList, toolMapObj, warnings>>
  /\ UNCHANGED serverVars

Next ==
  \/ ReturnNoPaths
  \/ EnterLoop
  \/ StepEntry
  \/ NextPathItem
  \/ ReturnTools

Spec == Init /\ [][Next]_vars

\* ------------------------------------------------------------------ generateEnvExample

\* the configuration main builds when the command line names only the document
Config == [name |-> "openapi-mcp-server", version |-> "1.0.0"]

\* `${a}_${b}`
UnderscoreJoin(a, b) == a \o <<"_">> \o b

IsApiKey(schemeDef) == Has(schemeDef, "type") /\ schemeDef.type = "apiKey"

\* a test that takes an oauth2 scheme for an http bearer scheme
IsHttpOrOauth2(schemeDef, scheme) ==
  /\ Has(schemeDef, "type")
  /\ \/ schemeDef.type = "http" /\ Has(schemeDef, "scheme") /\ schemeDef.scheme = scheme
     \/ schemeDef.type = "oauth2" /\ scheme = "bearer"

IsHttp(schemeDef, scheme) ==
  /\ Has(schemeDef, "type") /\ schemeDef.type = "http"
  /\ Has(schemeDef, "scheme") /\ schemeDef.scheme = scheme

\* a line `# text`
Comment(text, about) == [comment |-> text, about |-> about]

\* a line `name=value`
Assign(name, value) == [name |-> name, value |-> value]

\* the apiKey name left in the case the document declares it in
ExampleApiKeyNameAsDeclared(schemeName, schemeDef) ==
  UnderscoreJoin(toUpperCase(schemeName), schemeDef.name)

\* `${schemeName.toUpperCase()}_${schemeDef.name.toUpperCase()}`
ExampleApiKeyName(schemeName, schemeDef) ==
  UnderscoreJoin(toUpperCase(schemeName), toUpperCase(schemeDef.name))

\* the lines one scheme adds to authExamples; undefined.toUpperCase() throws
SchemeExample(schemeName, schemeDef) ==
  IF IsApiKey(schemeDef)
    THEN IF Has(schemeDef, "name")
           THEN Ok(<<Comment("Example for API Key", schemeName),
                     Assign(ExampleApiKeyName(schemeName, schemeDef),
                            "YOUR_API_KEY_VALUE")>>)
           ELSE Throw("TypeError")
  ELSE IF IsHttp(schemeDef, "bearer")
    THEN Ok(<<Comment("Example for HTTP Bearer Token", schemeName),
              Assign(UnderscoreJoin(toUpperCase(schemeName), BEARERTOKEN),
                     "YOUR_BEARER_TOKEN_VALUE")>>)
  ELSE IF IsHttp(schemeDef, "basic")
    THEN Ok(<<Comment("Example for HTTP Basic Auth", schemeName),
              Assign(UnderscoreJoin(toUpperCase(schemeName), USERNAME), "YOUR_USERNAME"),
              Assign(UnderscoreJoin(toUpperCase(schemeName), PASSWORD), "YOUR_PASSWORD")>>)
  ELSE Ok(<<>>)

AppendExample(authExamples, example) ==
  IF example.ok THEN Ok(authExamples.val \o example.val) ELSE example

RECURSIVE AuthExamples(_, _, _)

\* the loop over Object.entries(securitySchemes), from entry i on
AuthExamples(securitySchemes, i, authExamples) ==
  IF ~authExamples.ok \/ i > Len(securitySchemes) THEN authExamples
  ELSE AuthExamples(securitySchemes, i + 1,
                    AppendExample(authExamples,
                                  SchemeExample(securitySchemes[i][1],
                                                securitySchemes[i][2])))

\* the template around ${authExamples}
EnvTemplate(config, authExamples) ==
  IF authExamples.ok
    THEN Ok(<<Comment("API Configuration", <<>>),
              Assign(API_BASE_URL, "https://api.example.com"),
              Assign(API_HEADERS, ""),
              Comment("Server Configuration", <<>>),
              Assign(SERVER_NAME, config.name),
              Assign(SERVER_VERSION, config.version),
              Assign(TRANSPORT, "stdio"),
              Comment("Debug", <<>>),
              Assign(DEBUG, "false")>> \o authExamples.val)
    ELSE authExamples

\* the lines of .env.example
generateEnvExample(config, securitySchemes) ==
  EnvTemplate(config,
              IF Len(securitySchemes) > 0
                THEN AuthExamples(securitySchemes, 1,
                                  Ok(<<Comment("--- Authorization Configuration ---",
                                               <<>>)>>))
                ELSE Ok(<<>>))

\* ------------------------------------------------------------------ main

\* tool.description || otherwise
DescriptionOr(tool, otherwise) ==
  IF tool.description # <<>> THEN tool.description ELSE otherwise

\* the section generateReadme renders for one tool
ReadmeSection(tool) ==
  [name |-> tool.name,
   id |-> tool.id,
   description |-> DescriptionOr(tool, <<"No description provided">>),
   method |-> tool.method,
   path |-> tool.path,
   parameters |-> Keys(tool.inputSchema.properties)]

\* the member of APITools generateTypeDefinitions renders for one tool
TypeEntry(tool) ==
  [id |-> tool.id,
   description |-> DescriptionOr(tool, tool.name),
   params |-> Keys(tool.inputSchema.properties)]

\* tools.map(...) of generateReadme and of generateTypeDefinitions
generateReadme(toolSeq) == [i \in 1..Len(toolSeq) |-> ReadmeSection(toolSeq[i])]

generateTypeDefinitions(toolSeq) == [i \in 1..Len(toolSeq) |-> TypeEntry(toolSeq[i])]

\* the files main hands to copyTemplateFile
GeneratedFiles ==
  {"server.js", "server.ts", "package.json", "README.md", ".env.example",
   "types.d.ts", "tsconfig.json", "build.js"}

\* the files are generated from what generateTools returned and written
WriteProject ==
  /\ stage = "compile"
  /\ pc = "returned"
  /\ generateEnvExample(Config, result.securitySchemes).ok
  /\ TOOLS' = Values(result.toolMap)
  /\ SECURITY_SCHEMES' = result.securitySchemes
  /\ envExample' = generateEnvExample(Config, result.securitySchemes).val
  /\ readme' = generateReadme(result.tools)
  /\ typeDefinitions' = generateTypeDefinitions(result.tools)
  /\ writes' = [f \in GeneratedFiles |-> "pending"]
  /\ stage' = "writing"
  /\ UNCHANGED <<compileVars, env, files, outputDir, report, serving>>

\* what main generated for file f before it issued the writes
ContentOf(f) ==
  CASE f = "server.js" ->
         [language |-> "js", TOOLS |-> TOOLS, SECURITY_SCHEMES |-> SECURITY_SCHEMES]
    [] f = "server.ts" ->
         [language |-> "ts", TOOLS |-> TOOLS, SECURITY_SCHEMES |-> SECURITY_SCHEMES]
    [] f = "package.json" -> [name |-> Config.name, version |-> Config.version]
    [] f = "README.md" -> [title |-> Config.name, sections |-> readme]
    [] f = ".env.example" -> [lines |-> envExample]
    [] f = "types.d.ts" -> [APITools |-> typeDefinitions]
    [] f = "tsconfig.json" -> [outDir |-> "./dist"]
    [] f = "build.js" -> [command |-> "npx tsc"]

\* mutant of Stored: every write fills one shared buffer, so that a completed
\* write leaves its content in the files written before it
StoredThroughSharedBuffer(f, dir) ==
  [g \in DOMAIN dir \cup {f} |-> ContentOf(f)]

\* writeFile(outputPath, content): the directory dir once the write of file f
\* has completed
Stored(f, dir) ==
  [g \in DOMAIN dir \cup {f} |-> IF g = f THEN ContentOf(f) ELSE dir[g]]

\* main printed the success message and returned true: exit code 0
Succeeded ==
  [status |-> "ended", success |-> TRUE, exitCode |-> 0,
   message |-> "MCP server generated successfully"]

\* main's catch printed the error and returned false: exit code 1
Failed ==
  [status |-> "ended", success |-> FALSE, exitCode |-> 1,
   message |-> "Error generating MCP server"]

\* mutant of AfterFailure: main removes what it wrote when a write fails
RolledBack(dir) == <<>>

\* the output directory after a write failed: main deletes nothing
AfterFailure(dir) == dir

\* one of the writes handed to Promise.all completes, in any order
WriteCompletes ==
  /\ stage = "writing"
  /\ \E f \in GeneratedFiles :
       /\ writes[f] = "pending"
       /\ writes' = [writes EXCEPT ![f] = "done"]
       /\ outputDir' = Stored(f, outputDir)
       /\ files' = files \cup {f}
  /\ UNCHANGED <<compileVars, env, stage, report, envExample, readme, typeDefinitions,
                 TOOLS, SECURITY_SCHEMES, serving>>

\* one of the writes fails: copyTemplateFile throws again, Promise.all
\* rejects, main's catch returns false and the process exits with code 1
\* while the other writes are still pending
WriteFails ==
  /\ stage = "writing"
  /\ \E f \in GeneratedFiles :
       /\ writes[f] = "pending"
       /\ writes' = [g \in GeneratedFiles |->
                       IF g = f THEN "failed"
                       ELSE IF writes[g] = "pending" THEN "cut" ELSE writes[g]]
  /\ outputDir' = AfterFailure(outputDir)
  /\ files' = DOMAIN AfterFailure(outputDir)
  /\ report' = Failed
  /\ stage' = "failed"
  /\ UNCHANGED <<compileVars, env, envExample, readme, typeDefinitions, TOOLS,
                 SECURITY_SCHEMES, serving>>

\* every write completed: results.every(Boolean) holds, main prints the
\* success message and returns true, the process exits with code 0
ReportSuccess ==
  /\ stage = "writing"
  /\ \A f \in GeneratedFiles : writes[f] = "done"
  /\ report' = Succeeded
  /\ stage' = "written"
  /\ UNCHANGED <<compileVars, env, files, outputDir, writes, envExample, readme,
                 typeDefinitions, TOOLS, SECURITY_SCHEMES, serving>>

\* main throws on a document that did not load, and its catch returns false
LoadFails ==
  /\ stage = "compile"
  /\ pc = "unloaded"
  /\ report' = Failed
  /\ stage' = "failed"
  /\ UNCHANGED <<compileVars, env, TOOLS, SECURITY_SCHEMES, envExample, files, outputDir,
                 writes, readme, typeDefinitions, serving>>

\* generateTools or a generator threw: main reports the error, writes nothing
GenerationFails ==
  /\ stage = "compile"
  /\ \/ pc = "threw"
     \/ /\ pc = "returned"
        /\ ~generateEnvExample(Config, result.securitySchemes).ok
  /\ report' = Failed
  /\ stage' = "failed"
  /\ UNCHANGED <<compileVars, env, TOOLS, SECURITY_SCHEMES, envExample, files, outputDir,
                 writes, readme, typeDefinitions, serving>>

\* ------------------------------------------------------------------ generated server: start-up

\* name is set in the environment e and not the empty string
IsSet(e, name) == HasKey(e, name) /\ Get(e, name) # <<>>

\* e[name] || otherwise
ValueOr(e, name, otherwise) == IF IsSet(e, name) THEN Get(e, name) ELSE otherwise

\* process.env[name] is set and not the empty string
EnvHas(name) == IsSet(env, name)

\* process.env[name] || otherwise
EnvOr(name, otherwise) == ValueOr(env, name, otherwise)

\* the positions of sub in s
Occurs(s, sub) ==
  {i \in 1..(Len(s) - Len(sub) + 1) : SubSeq(s, i, i + Len(sub) - 1) = sub}

\* s.includes(sub)
includes(s, sub) == Occurs(s, sub) # {}

First(positions) == CHOOSE i \in positions : \A j \in positions : i <= j

\* s.replace(sub, by) for a string pattern: the first occurrence only
ReplaceAt(s, i, n, by) == SubSeq(s, 1, i - 1) \o by \o SubSeq(s, i + n, Len(s))

RECURSIVE split(_, _)

\* s.split(c) for a one-character separator
split(s, c) ==
  IF includes(s, <<c>>)
    THEN <<SubSeq(s, 1, First(Occurs(s, <<c>>)) - 1)>>
         \o split(SubSeq(s, First(Occurs(s, <<c>>)) + 1, Len(s)), c)
    ELSE <<s>>

RECURSIVE trimStart(_)

trimStart(s) == IF Len(s) > 0 /\ s[1] = " " THEN trimStart(Tail(s)) ELSE s

RECURSIVE trimEnd(_)

trimEnd(s) ==
  IF Len(s) > 0 /\ s[Len(s)] = " " THEN trimEnd(SubSeq(s, 1, Len(s) - 1)) ELSE s

\* s.trim()
trim(s) == trimEnd(trimStart(s))

\* const [key, value] = header.split(":"); if (key && value) headers[...] = ...
ParseHeader(parsed, parts) ==
  IF Len(parts) >= 2 /\ parts[1] # <<>> /\ parts[2] # <<>>
    THEN Put(parsed, trim(parts[1]), trim(parts[2]))
    ELSE parsed

RECURSIVE ParseHeaderList(_, _, _)

ParseHeaderList(list, i, parsed) ==
  IF i > Len(list) THEN parsed
  ELSE ParseHeaderList(list, i + 1, ParseHeader(parsed, split(list[i], ":")))

parseHeaders(headerStr) ==
  IF headerStr # <<>> THEN ParseHeaderList(split(headerStr, ","), 1, <<>>) ELSE <<>>

\* this.tools after initializeTools: id -> {name, description, inputSchema}
initializeTools ==
  [i \in 1..Len(TOOLS) |->
     <<TOOLS[i].id, [name |-> TOOLS[i].name,
                     description |-> TOOLS[i].description,
                     inputSchema |-> TOOLS[i].inputSchema]>>]

\* one call log(level, message, data); data is <<>> when the call passes none
Entry(severity, message, data) ==
  [level |-> severity, message |-> message, data |-> data]

\* mutant of Sendable: log() does not test isConnected
SendableUnconnected(entry) == debug \/ entry.level # "debug"

\* log() hands the entry to sendLoggingMessage
Sendable(entry) == (debug \/ entry.level # "debug") /\ isConnected

\* the calls log() receives in one handler, and those it passes on
log(entries) ==
  /\ logged' = logged \o entries
  /\ sentLogs' = sentLogs \o SelectSeq(entries, Sendable)

\* new MCPServer() and start(): every message logged here is dropped, the
\* server being null or not yet connected
StartServer ==
  /\ stage = "written"
  /\ \E e \in EnvMenu :
       /\ env' = e
       /\ debug' = (HasKey(e, DEBUG) /\ Get(e, DEBUG) = <<"t","r","u","e">>)
       /\ baseUrl' = ValueOr(e, API_BASE_URL, <<>>)
       /\ headers' = parseHeaders(ValueOr(e, API_HEADERS, <<>>))
  /\ stage' = "serving"
  /\ isConnected' = FALSE
  /\ tools' = initializeTools
  /\ logged' = <<Entry("info", "Initialized tools", <<>>),
                 Entry("info", "MCP Server starting on stdio transport", <<>>),
                 Entry("info", "MCP Server started successfully", <<>>)>>
  /\ sentLogs' = <<>>
  /\ UNCHANGED <<compileVars, TOOLS, SECURITY_SCHEMES, envExample, files, outputDir,
                 writes, report, readme, typeDefinitions, level, envReads, pending,
                 requests, replies, received>>

\* ------------------------------------------------------------------ generated server: executeApiCall

\* the characters encodeURIComponent leaves as they are
Unreserved ==
  Range(Lowers) \cup Range(Uppers) \cup Range(Digits)
    \cup {"-", "_", ".", "!", "~", "*", "'", "(", ")"}

\* the escape of one character, for the characters the arguments are made of
Escape(c) ==
  CASE c = "/" -> <<"%","2","F">>
    [] c = " " -> <<"%","2","0">>
    [] c = ":" -> <<"%","3","A">>
    [] c = "{" -> <<"%","7","B">>
    [] c = "}" -> <<"%","7","D">>
    [] OTHER -> <<"%","3","F">>

RECURSIVE encodeURIComponent(_)

encodeURIComponent(s) ==
  IF s = <<>> THEN <<>>
  ELSE (IF Head(s) \in Unreserved THEN <<Head(s)>> ELSE Escape(Head(s)))
       \o encodeURIComponent(Tail(s))

\* `{${key}}`
Placeholder(key) == <<"{">> \o key \o <<"}">>

\* delete o[key]
Without(o, key) == SelectSeq(o, LAMBDA entry : entry[1] # key)

\* mutant of SubstituteEntry: the key is substituted and stays among the
\* request parameters
SubstituteEntryKeeping(acc, key, value) ==
  IF includes(acc.path, Placeholder(key))
    THEN [acc EXCEPT !.path = ReplaceAt(@, First(Occurs(@, Placeholder(key))),
                                        Len(Placeholder(key)), encodeURIComponent(value))]
    ELSE acc

\* one step of the forEach: a key whose placeholder is in the path is
\* substituted into it and dropped from the request parameters, the copy
\* made of the caller's params
SubstituteEntry(acc, key, value) ==
  IF includes(acc.path, Placeholder(key))
    THEN [path |-> ReplaceAt(acc.path, First(Occurs(acc.path, Placeholder(key))),
                             Len(Placeholder(key)), encodeURIComponent(value)),
          requestParams |-> Without(acc.requestParams, key),
          params |-> acc.params]
    ELSE acc

RECURSIVE SubstitutePath(_, _, _)

\* Object.entries(requestParams).forEach(...), from entry i on
SubstitutePath(entries, i, acc) ==
  IF i > Len(entries) THEN acc
  ELSE SubstitutePath(entries, i + 1,
                      SubstituteEntry(acc, entries[i][1], entries[i][2]))

\* new URL(relative, base).toString(): a base that is no absolute URL throws;
\* a relative path is appended to a base that ends in a slash
newURL(relative, base) ==
  IF includes(base, <<":","/","/">>) THEN Ok(base \o relative) ELSE Throw("TypeError")

\* this.baseUrl.endsWith("/") ? this.baseUrl : `${this.baseUrl}/`
WithTrailingSlash(url) ==
  IF Len(url) > 0 /\ url[Len(url)] = "/" THEN url ELSE Append(url, "/")

\* config.params || {}
ParamsOr(config) == IF Has(config, "params") THEN config.params ELSE <<>>

\* process.env[...] was read for these names
Read(acc, names) == [acc EXCEPT !.reads = @ \cup names]

\* config.headers[name] = value
WithHeader(acc, name, value) == [acc EXCEPT !.config.headers = Put(@, name, value)]

\* config.params = config.params || {}; config.params[name] = value
WithParam(acc, name, value) ==
  [acc EXCEPT !.config = [params |-> Put(ParamsOr(@), name, value)] @@ @]

\* this.log('warning', ...)
Warn(acc, message, about) ==
  [acc EXCEPT !.logs = Append(@, Entry("warning", message, about))]

\* `${securitySchemeName.toUpperCase()}_${apiKeyName.toUpperCase()}`
envVarName(securitySchemeName, apiKeyName) ==
  UnderscoreJoin(toUpperCase(securitySchemeName), toUpperCase(apiKeyName))

ApplyApiKey(acc, securityDefinition, name) ==
  IF EnvHas(name)
    THEN IF Has(securityDefinition, "in") /\ securityDefinition.in = "header"
           THEN WithHeader(acc, securityDefinition.name, Get(env, name))
         ELSE IF Has(securityDefinition, "in") /\ securityDefinition.in = "query"
           THEN WithParam(acc, securityDefinition.name, Get(env, name))
         ELSE acc
    ELSE Warn(acc, "API Key environment variable not found", name)

ApplyBearer(acc, name) ==
  IF EnvHas(name)
    THEN WithHeader(acc, Authorization, <<"B","e","a","r","e","r"," ">> \o Get(env, name))
    ELSE Warn(acc, "Bearer Token environment variable not found", name)

\* Buffer.from(s).toString('base64'), kept as a marked copy of its input
base64(s) == <<"b","6","4","(">> \o s \o <<")">>

\* the header is built once the user name is set, whatever the password
BasicWithUsernameOnly(acc, securitySchemeName, username, password) ==
  IF EnvHas(username)
    THEN WithHeader(acc, Authorization,
                    <<"B","a","s","i","c"," ">>
                      \o base64(Get(env, username) \o <<":">> \o EnvOr(password, <<>>)))
    ELSE Warn(acc, "Basic auth credentials not found for", securitySchemeName)

ApplyBasic(acc, securitySchemeName, username, password) ==
  IF EnvHas(username) /\ EnvHas(password)
    THEN WithHeader(acc, Authorization,
                    <<"B","a","s","i","c"," ">>
                      \o base64(Get(env, username) \o <<":">> \o Get(env, password)))
    ELSE Warn(acc, "Basic auth credentials not found for", securitySchemeName)

ApplyDefinition(acc, securitySchemeName, securityDefinition) ==
  IF IsApiKey(securityDefinition)
    THEN ApplyApiKey(Read(acc, {envVarName(securitySchemeName, securityDefinition.name)}),
                     securityDefinition,
                     envVarName(securitySchemeName, securityDefinition.name))
  ELSE IF IsHttp(securityDefinition, "bearer")
    THEN ApplyBearer(Read(acc, {UnderscoreJoin(toUpperCase(securitySchemeName),
                                               BEARERTOKEN)}),
                     UnderscoreJoin(toUpperCase(securitySchemeName), BEARERTOKEN))
  ELSE IF IsHttp(securityDefinition, "basic")
    THEN ApplyBasic(Read(acc, {UnderscoreJoin(toUpperCase(securitySchemeName), USERNAME),
                               UnderscoreJoin(toUpperCase(securitySchemeName), PASSWORD)}),
                    securitySchemeName,
                    UnderscoreJoin(toUpperCase(securitySchemeName), USERNAME),
                    UnderscoreJoin(toUpperCase(securitySchemeName), PASSWORD))
  ELSE acc

\* const securityDefinition = SECURITY_SCHEMES[securitySchemeName]; if (...)
ApplyScheme(acc, securitySchemeName) ==
  IF HasKey(SECURITY_SCHEMES, securitySchemeName)
    THEN ApplyDefinition(acc, securitySchemeName,
                         Get(SECURITY_SCHEMES, securitySchemeName))
    ELSE acc

RECURSIVE ApplyRequirement(_, _, _)

\* for (const securitySchemeName of Object.keys(requirement)), from key i on
ApplyRequirement(requirement, i, acc) ==
  IF i > Len(requirement) THEN acc
  ELSE ApplyRequirement(requirement, i + 1, ApplyScheme(acc, requirement[i]))

RECURSIVE ApplySecurity(_, _, _)

\* for (const requirement of tool.security), from requirement i on
\* mutant of ApplySecurity: the first alternative only is applied
ApplyFirstAlternative(security, i, acc) ==
  IF security = <<>> THEN acc ELSE ApplyRequirement(security[1], 1, acc)

ApplySecurity(security, i, acc) ==
  IF i > Len(security) THEN acc
  ELSE ApplySecurity(security, i + 1, ApplyRequirement(security[i], 1, acc))

\* the parameters go to the query string for GET and DELETE, else to the body
WithParameters(acc, method, requestParams) ==
  IF method \in {toUpperCase(GET), toUpperCase(DELETE)}
    THEN [acc EXCEPT !.config = [params |-> PutAll(ParamsOr(@), requestParams, 1)] @@ @]
    ELSE [acc EXCEPT !.config =
            [data |-> requestParams,
             headers |-> Put(@.headers, <<"C","o","n","t","e","n","t","-","T","y","p","e">>,
                             <<"a","p","p","l","i","c","a","t","i","o","n","/",
                               "j","s","o","n">>)] @@ @]

\* this.log('debug', "Request config:", ...)
WithRequestLog(acc) ==
  [acc EXCEPT !.logs = Append(@, Entry("debug", "Request config", acc.config.url))]

\* the body of the try block up to `await axios(config)`
BuildConfig(tool, url, requestParams) ==
  WithRequestLog(
    WithParameters(
      ApplySecurity(tool.security, 1,
                    [config |-> [method |-> toLowerCase(tool.method),
                                 url |-> url,
                                 headers |-> headers],
                     logs |-> <<Entry("debug", "API Request", url)>>,
                     reads |-> {}]),
      tool.method, requestParams))

\* the URL is built outside the try block: its TypeError leaves executeApiCall
WithUrl(tool, url, requestParams) ==
  IF url.ok THEN Ok(BuildConfig(tool, url.val, requestParams)) ELSE url

\* the caller's params object as it is when the request is handed to axios
WithArguments(built, params) ==
  IF built.ok THEN Ok([arguments |-> params] @@ built.val) ELSE built

AfterSubstitution(tool, substituted) ==
  WithArguments(WithUrl(tool,
                        newURL(StripLeadingSlash(substituted.path),
                               WithTrailingSlash(baseUrl)),
                        substituted.requestParams),
                substituted.params)

\* executeApiCall(tool, params) up to the request it hands to axios
executeApiCall(tool, params) ==
  AfterSubstitution(tool,
                    SubstitutePath(params, 1,
                                   [path |-> tool.path, requestParams |-> params,
                                    params |-> params]))

\* ------------------------------------------------------------------ generated server: handlers

Undefined == [undefined |-> TRUE]

\* JSON.stringify(value): undefined for undefined, else the text of the value
JSONstringify(value) == IF value = Undefined THEN Undefined ELSE [json |-> value]

\* the arguments objects a client passes
ArgumentsMenu ==
  { << <<<<"b">>, <<"7">>>> >>,
    << <<<<"l","i","m","i","t">>, <<"1","0">>>>, <<<<"b">>, <<"x","/","y">>>> >> }

\* request.params of the tools/call requests a client sends: a tool named by
\* id, by name, by neither, by an id or name no tool has, or by a name
\* together with an id no tool has
CallMenu ==
  {[id |-> TOOLS[i].id, arguments |-> a] : i \in 1..Len(TOOLS), a \in ArgumentsMenu}
    \cup {[name |-> TOOLS[i].name] : i \in 1..Len(TOOLS)}
    \cup {[id |-> SchemeZ, name |-> TOOLS[i].name] : i \in 1..Len(TOOLS)}
    \cup {[id |-> SchemeZ], [name |-> SchemeZ, id |-> <<>>], [arguments |-> <<>>]}

\* the levels a client sets
LevelMenu == {"debug", "info", "error"}

\* what the API answers: data, or an empty body, which axios hands over as
\* the empty string
DataMenu == {[pets |-> <<"rex">>], [string |-> <<>>]}

\* how a request fails: with a response of the API, without one, or with an
\* error that is not an axios error
ErrorMenu ==
  {[message |-> "Request failed with status code 404", isAxiosError |-> TRUE,
    response |-> [status |-> <<"4","0","4">>, data |-> [code |-> "missing"]]],
   [message |-> "Network Error", isAxiosError |-> TRUE],
   [message |-> "socket hang up", isAxiosError |-> FALSE]}

\* a request field that is present and truthy
Given(params, field) == Has(params, field) /\ params[field] # <<>>

\* `id || name` in a message
IdOrName(params) ==
  IF Given(params, "id") THEN params.id
  ELSE IF Has(params, "name") THEN params.name
  ELSE <<"u","n","d","e","f","i","n","e","d">>

\* toolId = id; if (!toolId && name) the first tool of this.tools of that name
\* mutant of SelectToolId: the name is looked up before the id is used
SelectToolIdByNameFirst(params) ==
  IF Given(params, "name") /\ \E i \in 1..Len(tools) : tools[i][2].name = params.name
    THEN Ok(tools[First({i \in 1..Len(tools) : tools[i][2].name = params.name})][1])
  ELSE IF Given(params, "id") THEN Ok(params.id)
  ELSE Throw([text |-> "Tool not found", about |-> IdOrName(params)])

SelectToolId(params) ==
  IF Given(params, "id") THEN Ok(params.id)
  ELSE IF Given(params, "name") /\ \E i \in 1..Len(tools) : tools[i][2].name = params.name
    THEN Ok(tools[First({i \in 1..Len(tools) : tools[i][2].name = params.name})][1])
  ELSE Throw([text |-> "Tool not found", about |-> IdOrName(params)])

\* TOOLS.find(t => t.id === toolId)
FindTool(toolId) ==
  IF toolId.ok
    THEN IF \E i \in 1..Len(TOOLS) : TOOLS[i].id = toolId.val
           THEN Ok(TOOLS[First({i \in 1..Len(TOOLS) : TOOLS[i].id = toolId.val})])
           ELSE Throw([text |-> "Tool details not found for ID", about |-> toolId.val])
    ELSE toolId

\* the catch block of the handler: the error is logged and returned
ErrorReply(who, error, details) ==
  [logs |-> <<Entry("error", "Error executing tool", who)>>,
   reply |-> [error |-> [message |-> error, details |-> details]]]

\* the handler up to its first await, or to its return when it fails before
CallOutcome(params, toolDetails, prepared) ==
  IF ~toolDetails.ok
    THEN [sent |-> FALSE, reads |-> {},
          logs |-> <<Entry("debug", "Handling CallTool request", IdOrName(params))>>
                     \o ErrorReply(IdOrName(params), toolDetails.error, Undefined).logs,
          reply |-> ErrorReply(IdOrName(params), toolDetails.error, Undefined).reply]
  ELSE IF ~prepared.ok
    THEN [sent |-> FALSE, reads |-> {},
          logs |-> <<Entry("debug", "Handling CallTool request", IdOrName(params)),
                     Entry("info", "Executing tool", toolDetails.val.id)>>
                     \o ErrorReply(toolDetails.val.id,
                                   [text |-> "Invalid URL", about |-> <<>>],
                                   Undefined).logs,
          reply |-> ErrorReply(toolDetails.val.id,
                               [text |-> "Invalid URL", about |-> <<>>],
                               Undefined).reply]
  ELSE [sent |-> TRUE, reads |-> prepared.val.reads,
        logs |-> <<Entry("debug", "Handling CallTool request", IdOrName(params)),
                   Entry("info", "Executing tool", toolDetails.val.id)>>
                   \o prepared.val.logs,
        request |-> [toolId |-> toolDetails.val.id, config |-> prepared.val.config,
                     arguments |-> prepared.val.arguments]]

\* executeApiCall(toolDetails, params || {}) when a tool was found
Prepare(params, toolDetails) ==
  CallOutcome(params, toolDetails,
              IF toolDetails.ok
                THEN executeApiCall(toolDetails.val,
                                    IF Has(params, "arguments") THEN params.arguments
                                    ELSE <<>>)
                ELSE toolDetails)

\* the state after the synchronous part of the CallTool handler
AfterCall(outcome) ==
  /\ log(outcome.logs)
  /\ envReads' = envReads \cup outcome.reads
  /\ IF outcome.sent
       THEN /\ requests' = Append(requests, outcome.request)
            /\ pending' = Append(pending, outcome.request)
            /\ UNCHANGED replies
       ELSE /\ replies' = Append(replies, outcome.reply)
            /\ UNCHANGED <<requests, pending>>

Serving == stage = "serving" /\ received < MaxRequests

\* notifications/initialized, which a client sends once, to end its handshake,
\* before any call of a tool has reached the API: the message is logged, then
\* isConnected is set
Initialized ==
  /\ stage = "serving"
  /\ ~isConnected
  /\ requests = <<>>
  /\ log(<<Entry("debug", "Handling notifications/initialized request", <<>>)>>)
  /\ isConnected' = TRUE
  /\ UNCHANGED <<compileVars, generated, env, debug, level, baseUrl, headers, tools,
                 envReads, pending, requests, replies, received>>

\* logging/setLevel
SetLevel ==
  /\ Serving
  /\ \E requested \in LevelMenu :
       /\ log(<<Entry("debug", "Handling logging/setLevel request", <<>>)>>)
       /\ debug' = (requested = "debug")
       /\ level' = requested
  /\ received' = received + 1
  /\ UNCHANGED <<compileVars, generated, env, isConnected, baseUrl, headers, tools,
                 envReads, pending, requests, replies>>

\* tools/list
ListTools ==
  /\ Serving
  /\ log(<<Entry("debug", "Handling ListTools request", <<>>)>>)
  /\ replies' = Append(replies,
                       [tools |-> [i \in 1..Len(tools) |->
                                     [id |-> tools[i][1]] @@ tools[i][2]]])
  /\ received' = received + 1
  /\ UNCHANGED <<compileVars, generated, env, isConnected, debug, level, baseUrl, headers,
                 tools, envReads, pending, requests>>

\* tools/call, up to the request handed to axios or to the error returned
CallTool ==
  /\ Serving
  /\ \E params \in CallMenu : AfterCall(Prepare(params, FindTool(SelectToolId(params))))
  /\ received' = received + 1
  /\ UNCHANGED <<compileVars, generated, env, isConnected, debug, level, baseUrl, headers,
                 tools>>

RemoveAt(s, i) == SubSeq(s, 1, i - 1) \o SubSeq(s, i + 1, Len(s))

\* axios resolves: the status is logged and the data returned as one text item
AxiosResolves ==
  /\ stage = "serving"
  /\ \E i \in 1..Len(pending), data \in DataMenu :
       /\ log(<<Entry("debug", "Response status", <<"2","0","0">>)>>)
       /\ replies' = Append(replies,
                            [content |-> <<[type |-> "text",
                                            text |-> JSONstringify(data)]>>])
       /\ pending' = RemoveAt(pending, i)
  /\ UNCHANGED <<compileVars, generated, env, isConnected, debug, level, baseUrl, headers,
                 tools, envReads, requests, received>>

\* the error executeApiCall throws on: an axios error is wrapped with its status
Rethrown(error) ==
  IF error.isAxiosError
    THEN [text |-> "API request failed with status",
          about |-> IF Has(error, "response") THEN error.response.status
                    ELSE <<"u","n","d","e","f","i","n","e","d">>,
          cause |-> error.message]
    ELSE [text |-> error.message, about |-> <<>>]

\* error.response?.data ? JSON.stringify(error.response.data) : undefined
DetailsOf(error) ==
  IF error.isAxiosError /\ Has(error, "response")
    THEN JSONstringify(error.response.data)
    ELSE Undefined

\* the log calls of the two catch blocks
FailureLogs(toolId, error) ==
  <<Entry("error", "API request failed", <<>>)>>
    \o (IF error.isAxiosError
          THEN <<Entry("error", "API Error Details",
                       IF Has(error, "response") THEN error.response.status
                       ELSE <<"u","n","d","e","f","i","n","e","d">>)>>
          ELSE <<>>)
    \o ErrorReply(toolId, Rethrown(error), DetailsOf(error)).logs

\* axios rejects: executeApiCall logs and rethrows, the handler returns the error
AxiosRejects ==
  /\ stage = "serving"
  /\ \E i \in 1..Len(pending), error \in ErrorMenu :
       /\ log(FailureLogs(pending[i].toolId, error))
       /\ replies' = Append(replies,
                            ErrorReply(pending[i].toolId, Rethrown(error),
                                       DetailsOf(error)).reply)
       /\ pending' = RemoveAt(pending, i)
  /\ UNCHANGED <<compileVars, generated, env, isConnected, debug, level, baseUrl, headers,
                 tools, envReads, requests, received>>

NextServer ==
  \/ ReturnNoPaths
  \/ EnterLoop
  \/ StepEntry
  \/ NextPathItem
  \/ ReturnTools
  \/ LoadFails
  \/ WriteProject
  \/ WriteCompletes
  \/ WriteFails
  \/ ReportSuccess
  \/ GenerationFails
  \/ StartServer
  \/ Initialized
  \/ SetLevel
  \/ ListTools
  \/ CallTool
  \/ AxiosResolves
  \/ AxiosRejects

SpecServer == InitServer /\ [][NextServer]_vars

\* ------------------------------------------------------------------ properties

Terminal == pc \in {"returned", "threw"}

\* the entries of one path item, as [path, method, op] records
ItemEntries(path, item) ==
  IF item = Null THEN <<>>
  ELSE [i \in 1..Len(item.entries) |->
          [path |-> path, method |-> item.entries[i][1], op |-> item.entries[i][2]]]

RECURSIVE EntriesFrom(_, _)

\* every entry of the document from path item i on, paths in declaration order
\* and, within a path, keys in declaration order
EntriesFrom(paths, i) ==
  IF i > Len(paths) THEN <<>>
  ELSE ItemEntries(paths[i][1], paths[i][2]) \o EntriesFrom(paths, i + 1)

\* an operation keyed by a recognized HTTP verb
IsOperation(e) == e.op # Null /\ toLowerCase(e.method) \in validMethods

Operations(doc) ==
  IF Has(doc, "paths") THEN SelectSeq(EntriesFrom(doc.paths, 1), IsOperation) ELSE <<>>

ParametersOf(op) == IF Has(op, "parameters") THEN op.parameters ELSE <<>>

WellFormed(param) == Has(param, "name") /\ Has(param, "in")

\* the application/json schema of the request body the compiler merges
HasBodySchema(e) ==
  /\ toLowerCase(e.method) \in bodyMethods
  /\ Has(e.op, "requestBody")
  /\ Has(e.op.requestBody, "content")
  /\ Has(e.op.requestBody.content, "application/json")
  /\ Has(e.op.requestBody.content["application/json"], "schema")

BodySchema(e) == e.op.requestBody.content["application/json"].schema

RefOnlyBody(e) ==
  HasBodySchema(e) /\ ~Has(BodySchema(e), "properties") /\ Truthy(BodySchema(e), "ref")

DirectBody(e) == HasBodySchema(e) /\ Has(BodySchema(e), "properties")

\* the component names an operation refers to
OperationRefs(e) ==
  {getComponentPath(ParametersOf(e.op)[i].schema.items.ref) :
     i \in {j \in 1..Len(ParametersOf(e.op)) :
              /\ WellFormed(ParametersOf(e.op)[j])
              /\ Has(ParametersOf(e.op)[j], "schema")
              /\ Has(ParametersOf(e.op)[j].schema, "items")
              /\ Truthy(ParametersOf(e.op)[j].schema.items, "ref")}}
  \cup (IF RefOnlyBody(e) THEN {getComponentPath(BodySchema(e).ref)} ELSE {})

\* every array-typed parameter schema declares its items
ArraysDeclareItems(e) ==
  \A i \in 1..Len(ParametersOf(e.op)) :
     LET param == ParametersOf(e.op)[i]
     IN (WellFormed(param) /\ Has(param, "schema") /\ Has(param.schema, "type")
         /\ param.schema.type = "array") => Has(param.schema, "items")

\* the reference resolves: the resolver hands back a schema for it
Resolves(doc, name) == generateSchemabyComponent(doc, name, 1).ok

\* a syntactically valid operation whose references all resolve
Compilable(doc, e) ==
  ArraysDeclareItems(e) /\ \A n \in OperationRefs(e) : Resolves(doc, n)

Place(x) == <<x.path, toLowerCase(x.method)>>

\* C1: a document whose N operations under recognized verbs are valid and
\* have resolving references compiles to exactly N tools, one per operation,
\* paths in declaration order and verbs in declaration order within a path
C1_OneToolPerOperationInOrder ==
  (Terminal /\ Has(spec, "paths")
     /\ \A i \in 1..Len(Operations(spec)) : Compilable(spec, Operations(spec)[i]))
  => /\ result.status = "returned"
     /\ Len(result.tools) = Len(Operations(spec))
     /\ \A i \in 1..Len(result.tools) :
          /\ result.tools[i].path = Operations(spec)[i].path
          /\ result.tools[i].method = toUpperCase(Operations(spec)[i].method)

\* a returned document with three tools over two paths, with a skipped key
C1_Witness ==
  /\ pc = "returned"
  /\ Has(spec, "paths")
  /\ Len(spec.paths) = 2
  /\ Len(result.tools) = 3
  /\ Len(EntriesFrom(spec.paths, 1)) > 3
  /\ result.tools[1].path = result.tools[2].path
  /\ result.tools[1].method # result.tools[2].method
  /\ result.tools[3].path # result.tools[1].path

\* C2: two tools of one document that differ in verb or in path template
\* have different ids
C2_ToolIdsInjective ==
  pc = "returned" =>
    \A i, j \in 1..Len(result.tools) :
       (result.tools[i].method # result.tools[j].method
          \/ result.tools[i].path # result.tools[j].path)
       => result.tools[i].id # result.tools[j].id

KeySet(o) == {o[i][1] : i \in 1..Len(o)}

RequiredDeclared(schema) ==
  (Has(schema, "properties") /\ Has(schema, "required"))
  => Range(schema.required) \subseteq KeySet(schema.properties)

\* the request-body schema the operation merges, direct or referenced,
\* lists as required only names it declares
SourcesDeclareRequired(doc, e) ==
  /\ DirectBody(e) => RequiredDeclared(BodySchema(e))
  /\ RefOnlyBody(e) =>
       RequiredDeclared(doc.components.schemas[getComponentPath(BodySchema(e).ref)])

RECURSIVE NoReferenceIn(_)

\* no `$ref` marker anywhere in a resolved schema
NoReferenceIn(node) ==
  /\ ~Has(node, "ref")
  /\ Has(node, "items") => NoReferenceIn(node.items)
  /\ Has(node, "properties") =>
       \A i \in 1..Len(node.properties) : NoReferenceIn(node.properties[i][2])

RECURSIVE ExpandedChain(_)

\* the tree the chain ChainNames[i] -> ... -> ChainNames[MaxDepth] expands to,
\* written out from the component table
ExpandedChain(i) ==
  IF i < MaxDepth
    THEN [type |-> "object",
          properties |->
            << <<"next", ExpandedChain(i + 1)>>,
               <<"list", [type |-> "array",
                          description |-> <<"list", " property">>,
                          items |-> ExpandedChain(i + 1)]>> >>,
          required |-> <<>>]
    ELSE [type |-> "object",
          properties |-> << <<"leaf", [type |-> "integer",
                                       description |-> <<"leaf", " property">>]>> >>,
          required |-> <<"leaf">>]

ChainIndex(name) == CHOOSE i \in 1..MaxDepth : ChainNames[i] = name

BodyRefName(e) == getComponentPath(BodySchema(e).ref)

\* C4: the schema resolved for the head of an acyclic chain of K component
\* references is the fully expanded tree, every reference-only property and
\* every reference-only array `items` replaced by the resolved schema of the
\* component it names, with no `$ref` marker left
C4_ChainFullyExpanded ==
  pc = "returned" =>
    \A i \in 1..Len(result.tools) :
       (RefOnlyBody(Operations(spec)[i])
          /\ BodyRefName(Operations(spec)[i]) \in {ChainNames[k] : k \in 1..MaxDepth})
       => /\ NoReferenceIn(result.tools[i].inputSchema)
          /\ result.tools[i].inputSchema
               = ExpandedChain(ChainIndex(BodyRefName(Operations(spec)[i])))

\* the head of the longest chain was resolved, through MaxDepth components
C4_Witness ==
  /\ pc = "returned"
  /\ Len(result.tools) = 1
  /\ RefOnlyBody(Operations(spec)[1])
  /\ BodyRefName(Operations(spec)[1]) = ChainNames[1]
  /\ MaxDepth >= 3
  /\ Get(Get(result.tools[1].inputSchema.properties, "next").properties,
          "list").items = ExpandedChain(3)

\* C5: the input schema of a post/put/patch tool whose application/json body
\* schema is reference-only has exactly the properties and the required list
\* of the referenced component, whatever the parameters had contributed
C5_RefBodyReplacesInputSchema ==
  pc = "returned" =>
    \A i \in 1..Len(result.tools) :
       RefOnlyBody(Operations(spec)[i]) =>
         LET component == spec.components.schemas[BodyRefName(Operations(spec)[i])]
             schema == result.tools[i].inputSchema
         IN /\ Keys(schema.properties) = Keys(component.properties)
            /\ schema.required
                 = IF Has(component, "required") THEN component.required ELSE <<>>
            /\ BodyRefName(Operations(spec)[i]) = "Pet"
                 => /\ Keys(schema.properties) = <<"name", "tag">>
                    /\ schema.required = <<"name">>

\* a post tool with two well-formed parameters and the body Pet
C5_Witness ==
  /\ pc = "returned"
  /\ Len(result.tools) = 1
  /\ RefOnlyBody(Operations(spec)[1])
  /\ BodyRefName(Operations(spec)[1]) = "Pet"
  /\ Len(ParametersOf(Operations(spec)[1].op)) = 2
  /\ \A k \in 1..2 : WellFormed(ParametersOf(Operations(spec)[1].op)[k])
  /\ Keys(result.tools[1].inputSchema.properties) = <<"name", "tag">>

\* the operation declares the required path parameter petId
DeclaresPetId(e) ==
  \E k \in 1..Len(ParametersOf(e.op)) :
     LET param == ParametersOf(e.op)[k]
     IN /\ WellFormed(param)
        /\ param.name = "petId"
        /\ param.in = "path"
        /\ Has(param, "required") /\ param.required

C9_NoPathsEmptyWithWarning ==
  (Terminal /\ ~Has(spec, "paths"))
  => /\ result.status = "returned"
     /\ result.tools = <<>>
     /\ result.toolMap = <<>>
     /\ Len(warnings) = 1

\* a document without `paths` (and with security schemes) was compiled
C9_Witness ==
  /\ pc = "returned"
  /\ ~Has(spec, "paths")
  /\ Has(spec, "components")
  /\ result.securitySchemes # <<>>
  /\ result.tools = <<>>

\* the operation without its parameter entries that lack `name` or `in`
WithoutMalformed(op) ==
  IF Has(op, "parameters")
    THEN [op EXCEPT !.parameters = SelectSeq(@, WellFormed)]
    ELSE op

HasMalformed(e) ==
  \E k \in 1..Len(ParametersOf(e.op)) : ~WellFormed(ParametersOf(e.op)[k])

\* C10: a parameter entry without `name` or without `in` adds nothing and
\* raises nothing: every tool of the document is the tool its operation
\* compiles to with those entries removed, and an operation whose other
\* parts compile still compiles
C10_MalformedParametersIgnored ==
  /\ pc = "returned" =>
       \A i \in 1..Len(result.tools) :
          LET e == Operations(spec)[i]
          IN /\ BuildTool(spec, e.path, e.method, WithoutMalformed(e.op)).ok
             /\ result.tools[i]
                  = BuildTool(spec, e.path, e.method, WithoutMalformed(e.op)).val
             /\ HasMalformed(e) =>
                  /\ "orphan" \notin KeySet(result.tools[i].inputSchema.properties)
                  /\ "orphan" \notin Range(result.tools[i].inputSchema.required)
  /\ pc = "threw" =>
       \E i \in 1..Len(Operations(spec)) :
          LET e == Operations(spec)[i]
          IN ~BuildTool(spec, e.path, e.method, WithoutMalformed(e.op)).ok

\* a tool whose operation had a malformed entry before a well-formed one,
\* beside a second tool
C10_Witness ==
  /\ pc = "returned"
  /\ Len(result.tools) = 2
  /\ HasMalformed(Operations(spec)[1])
  /\ ~WellFormed(ParametersOf(Operations(spec)[1].op)[1])
  /\ Keys(result.tools[1].inputSchema.properties) = <<"petId">>
  /\ result.tools[1].inputSchema.required = <<"petId">>
  /\ result.tools[2].inputSchema = emptyInputSchema

\* ---- C7, C8: credentials of the generated server

IsAssign(line) == Has(line, "name")

\* the variable names a sequence of .env.example lines assigns, in order
AssignedNames(lines) ==
  [i \in 1..Len(SelectSeq(lines, IsAssign)) |-> SelectSeq(lines, IsAssign)[i].name]

\* the names the convention requires for scheme S with definition def
RequiredEnvNames(S, def) ==
  IF IsApiKey(def) THEN <<toUpperCase(S) \o <<"_">> \o toUpperCase(def.name)>>
  ELSE IF IsHttp(def, "bearer") THEN <<toUpperCase(S) \o <<"_","B","E","A","R","E","R","T","O","K","E","N">>>>
  ELSE IF IsHttp(def, "basic")
    THEN <<toUpperCase(S) \o <<"_","U","S","E","R","N","A","M","E">>, toUpperCase(S) \o <<"_","P","A","S","S","W","O","R","D">>>>
  ELSE <<>>

RECURSIVE RequiredEnvNamesFrom(_, _)

\* the required names of every scheme of a table from entry i on, in table order
RequiredEnvNamesFrom(table, i) ==
  IF i > Len(table) THEN <<>>
  ELSE RequiredEnvNames(table[i][1], table[i][2]) \o RequiredEnvNamesFrom(table, i + 1)

\* a request being built to which no scheme has been applied yet
Unsecured ==
  [config |-> [method |-> GET, url |-> baseUrl, headers |-> headers],
   logs |-> <<>>,
   reads |-> {}]

\* the names the server looks up in process.env when it applies scheme S
NamesRead(S) == ApplyScheme(Unsecured, S).reads

\* C7: once the project is written, every declared scheme has in .env.example
\* exactly the names of the convention (apiKey: upper(S)_upper(N); bearer:
\* upper(S)_BEARERTOKEN; basic: upper(S)_USERNAME and upper(S)_PASSWORD, so
\* basicAuth gives BASICAUTH_USERNAME, BASICAUTH_PASSWORD and
\* my_api_key/api_key gives MY_API_KEY_API_KEY), these are the names the
\* server looks up when it applies the scheme, the credential lines of the
\* file are those of the declared schemes in order, and no call has looked
\* up a name the file does not assign.
C7_EnvNamesWrittenAreRead ==
  stage \in {"written", "serving"} =>
    /\ \A i \in 1..Len(SECURITY_SCHEMES) :
         /\ AssignedNames(SchemeExample(SECURITY_SCHEMES[i][1],
                                        SECURITY_SCHEMES[i][2]).val)
              = RequiredEnvNames(SECURITY_SCHEMES[i][1], SECURITY_SCHEMES[i][2])
         /\ NamesRead(SECURITY_SCHEMES[i][1])
              = Range(RequiredEnvNames(SECURITY_SCHEMES[i][1], SECURITY_SCHEMES[i][2]))
         /\ (SECURITY_SCHEMES[i][1] = basicAuth
               /\ IsHttp(SECURITY_SCHEMES[i][2], "basic"))
              => RequiredEnvNames(SECURITY_SCHEMES[i][1], SECURITY_SCHEMES[i][2])
                   = <<<<"B","A","S","I","C","A","U","T","H","_","U","S","E","R","N","A","M","E">>, <<"B","A","S","I","C","A","U","T","H","_","P","A","S","S","W","O","R","D">>>>
         /\ (SECURITY_SCHEMES[i][1] = my_api_key
               /\ IsApiKey(SECURITY_SCHEMES[i][2])
               /\ SECURITY_SCHEMES[i][2].name = api_key)
              => RequiredEnvNames(SECURITY_SCHEMES[i][1], SECURITY_SCHEMES[i][2])
                   = <<<<"M","Y","_","A","P","I","_","K","E","Y","_","A","P","I","_","K","E","Y">>>>
    /\ AssignedNames(envExample)
         = <<API_BASE_URL, API_HEADERS, SERVER_NAME, SERVER_VERSION, TRANSPORT, DEBUG>>
             \o RequiredEnvNamesFrom(SECURITY_SCHEMES, 1)
    /\ envReads \subseteq Range(RequiredEnvNamesFrom(SECURITY_SCHEMES, 1))

\* the project of the apiKey/basic/bearer table is written and the calls so
\* far have looked up every credential name the file assigns
C7_Witness ==
  /\ stage = "serving"
  /\ HasKey(SECURITY_SCHEMES, my_api_key)
  /\ HasKey(SECURITY_SCHEMES, basicAuth)
  /\ envReads = Range(RequiredEnvNamesFrom(SECURITY_SCHEMES, 1))
  /\ <<"M","Y","_","A","P","I","_","K","E","Y","_","A","P","I","_","K","E","Y">> \in envReads
  /\ <<"B","A","S","I","C","A","U","T","H","_","P","A","S","S","W","O","R","D">> \in envReads

\* the scheme names of a tool's requirements, in the order they are applied
RECURSIVE SchemesOf(_, _)

SchemesOf(security, i) ==
  IF i > Len(security) THEN <<>> ELSE security[i] \o SchemesOf(security, i + 1)

\* scheme S is declared with a supported type and a variable it needs is
\* not set (for basic: the user name or the password)
Lacking(S) ==
  /\ HasKey(SECURITY_SCHEMES, S)
  /\ RequiredEnvNames(S, Get(SECURITY_SCHEMES, S)) # <<>>
  /\ \E n \in Range(RequiredEnvNames(S, Get(SECURITY_SCHEMES, S))) : ~EnvHas(n)

\* the request as built once the first k schemes of the list are applied
Applied(schemes, k) == ApplyRequirement(SubSeq(schemes, 1, k), 1, Unsecured)

\* applying scheme k of the list leaves the request as it was and logs one warning
SkippedWithWarning(schemes, k) ==
  /\ Applied(schemes, k).config = Applied(schemes, k - 1).config
  /\ Len(Applied(schemes, k).logs) = Len(Applied(schemes, k - 1).logs) + 1
  /\ Applied(schemes, k).logs[Len(Applied(schemes, k).logs)].level = "warning"

CountOf(s, Test(_)) == Len(SelectSeq(s, Test))

\* the tool of a request handed to axios
ToolOfRequest(request) == FindTool(Ok(request.toolId)).val

\* the warnings log() received
Warnings == SelectSeq(logged, LAMBDA e : e.level = "warning")

RECURSIVE WarningsDue(_, _)

\* how many schemes without their variable the tools of the requests handed
\* to axios require, from request i on
WarningsDue(sent, i) ==
  IF i > Len(sent) THEN 0
  ELSE CountOf(SchemesOf(ToolOfRequest(sent[i]).security, 1), Lacking)
       + WarningsDue(sent, i + 1)

\* C8: while the server runs, applying a scheme whose variable is not set
\* (for basic: user name or password) changes neither the headers nor the
\* query parameters of the request and logs one warning; every tool
\* execution begun under a valid base URL has handed its request to axios,
\* whatever is set; and the warnings logged are one for each such scheme of
\* the tool of each request handed over.
C8_MissingCredentialOnlyWarns ==
  stage = "serving" =>
    /\ \A t \in 1..Len(TOOLS) :
         /\ \A k \in 1..Len(SchemesOf(TOOLS[t].security, 1)) :
              Lacking(SchemesOf(TOOLS[t].security, 1)[k])
                => SkippedWithWarning(SchemesOf(TOOLS[t].security, 1), k)
         /\ includes(WithTrailingSlash(baseUrl), <<":","/","/">>)
              => CountOf(logged, LAMBDA e : e.message = "Executing tool"
                                              /\ e.data = TOOLS[t].id)
                   = CountOf(requests, LAMBDA r : r.toolId = TOOLS[t].id)
    /\ Len(Warnings) = WarningsDue(requests, 1)

\* a connected server has handed a request to axios for a tool that requires
\* basic authentication while the password is not set, and the client has
\* received the warning
C8_Witness ==
  /\ stage = "serving"
  /\ \E r \in 1..Len(requests) :
       /\ \E k \in 1..Len(SchemesOf(ToolOfRequest(requests[r]).security, 1)) :
            /\ SchemesOf(ToolOfRequest(requests[r]).security, 1)[k] = basicAuth
            /\ Lacking(basicAuth)
            /\ EnvHas(<<"B","A","S","I","C","A","U","T","H","_","U","S","E","R","N","A","M","E">>)
       /\ ~HasKey(requests[r].config.headers, Authorization)
  /\ \E i \in 1..Len(sentLogs) :
       /\ sentLogs[i].level = "warning"
       /\ sentLogs[i].data = basicAuth

\* ---- C11: a reference to a missing component

\* the component the resolver follows from an array-typed schema
ItemRefs(schema) ==
  IF Has(schema, "type") /\ schema.type = "array" /\ Has(schema, "items")
       /\ Truthy(schema.items, "ref")
    THEN {getComponentPath(schema.items.ref)}
    ELSE {}

\* the component the resolver follows from one property of a component
PropertyRefs(schema) ==
  IF Truthy(schema, "ref") THEN {getComponentPath(schema.ref)} ELSE ItemRefs(schema)

Declared(doc, name) ==
  /\ Has(doc, "components")
  /\ Has(doc.components, "schemas")
  /\ Has(doc.components.schemas, name)

\* the components the properties of component `name` refer to
ComponentRefs(doc, name) ==
  IF Declared(doc, name) /\ Has(doc.components.schemas[name], "properties")
    THEN UNION {PropertyRefs(doc.components.schemas[name].properties[i][2]) :
                  i \in 1..Len(doc.components.schemas[name].properties)}
    ELSE {}

RECURSIVE ReachedFrom(_, _)

\* every component name reached from `names` through references
ReachedFrom(doc, names) ==
  LET more == names \cup UNION {ComponentRefs(doc, n) : n \in names}
  IN IF more = names THEN names ELSE ReachedFrom(doc, more)

\* the component names the compiler is led to by an operation: the items of
\* its array-typed parameters and its reference-only request body
RootRefs(e) ==
  UNION {ItemRefs(ParametersOf(e.op)[i].schema) :
           i \in {j \in 1..Len(ParametersOf(e.op)) :
                    WellFormed(ParametersOf(e.op)[j])
                    /\ Has(ParametersOf(e.op)[j], "schema")}}
  \cup (IF RefOnlyBody(e) THEN {getComponentPath(BodySchema(e).ref)} ELSE {})

\* some reference reached from an operation names a component that
\* components.schemas does not declare
ReachesMissing(doc) ==
  \E i \in 1..Len(Operations(doc)) :
     \E n \in ReachedFrom(doc, RootRefs(Operations(doc)[i])) : ~Declared(doc, n)

\* C11: when a reference reached from any operation names a component missing
\* from components.schemas, generateTools ends by throwing and hands back no
\* tools, not even those compiled before the failing operation, and main
\* writes no file and ends in failure
C11_MissingComponentAbortsGeneration ==
  ReachesMissing(spec) =>
    /\ pc # "returned"
    /\ pc = "threw" => (result.status = "threw" /\ ~Has(result, "tools"))
    /\ stage \in {"compile", "failed"}
    /\ files = {}
    /\ envExample = <<>>
    /\ TOOLS = <<>>

\* main has failed on a document whose first operation compiled to a tool and
\* whose later operation reaches the missing component through a declared one
C11_Witness ==
  /\ ReachesMissing(spec)
  /\ stage = "failed"
  /\ pc = "threw"
  /\ Len(toolList) = 1
  /\ ~ \E n \in RootRefs(Operations(spec)[2]) : ~Declared(spec, n)
  /\ files = {}

\* ---- C12: resolution of cyclic component tables

\* C12 as claimed: generateSchemabyComponent comes to an end by itself for
\* every component the compiler resolves, cyclic ones included: no compile
\* ends because the frames of the resolver exhausted the call stack
C12_ResolutionTerminates ==
  pc = "threw" => result.error # "RangeError"

\* ---- C13: the files of a generated project

\* the files the README lists under "Generated Files"
ListedFiles ==
  {"server.js", "package.json", "README.md", ".env.example", "types.d.ts",
   "tsconfig.json", "Dockerfile", ".dockerignore"}

\* C13 as claimed: once main has written the project, every file the README
\* lists as generated is in the output directory
C13_ListedFilesWritten ==
  stage \in {"written", "serving"} => ListedFiles \subseteq files

\* ---- C14: the log level a client sets

\* the severity order of the logging levels of the protocol the server uses
SeverityOf ==
  [l \in {"debug", "info", "warning", "error"} |->
     CASE l = "debug" -> 0 [] l = "info" -> 1 [] l = "warning" -> 2 [] l = "error" -> 3]

\* the calls of log() made by the step, and the notifications it sent
NewlyLogged == SubSeq(logged', Len(logged) + 1, Len(logged'))

NewlySent == SubSeq(sentLogs', Len(sentLogs) + 1, Len(sentLogs'))

\* C14 as claimed: once a client has set level L and is connected, every step
\* sends the messages it logs at or above L, and sends no message below L
C14_SendsFromRequestedLevelUp ==
  [][(level # "unset" /\ isConnected)
       => NewlySent = SelectSeq(NewlyLogged,
                                LAMBDA e : SeverityOf[e.level] >= SeverityOf[level])]_vars

\* ---- C15: schemes that take no environment variable

TakesNoVariable(def) == Has(def, "type") /\ def.type \in {"oauth2", "openIdConnect"}

\* the table without its oauth2 and openIdConnect schemes
SupportedSchemes(table) == SelectSeq(table, LAMBDA entry : ~TakesNoVariable(entry[2]))

\* the tool requires schemes, all declared, all oauth2 or openIdConnect
RequiresOnlyFlows(tool) ==
  /\ SchemesOf(tool.security, 1) # <<>>
  /\ \A k \in 1..Len(SchemesOf(tool.security, 1)) :
       /\ HasKey(SECURITY_SCHEMES, SchemesOf(tool.security, 1)[k])
       /\ TakesNoVariable(Get(SECURITY_SCHEMES, SchemesOf(tool.security, 1)[k]))

ContentType == <<"C","o","n","t","e","n","t","-","T","y","p","e">>

\* the names of the arguments a client passes
ArgumentNames == UNION {KeySet(a) : a \in ArgumentsMenu}

\* C15: an oauth2 or openIdConnect scheme adds no line to .env.example (the
\* variables assigned are those of the table without such schemes), applying
\* it reads no variable, logs nothing and leaves the request as it was, and a
\* request sent for a tool that requires only such schemes carries the static
\* API_HEADERS alone (with the Content-Type of a JSON body when the method is
\* neither GET nor DELETE) and no query parameter but the call's arguments
C15_FlowSchemesNeedNoVariable ==
  stage \in {"written", "serving"} =>
    /\ \A i \in 1..Len(SECURITY_SCHEMES) :
         TakesNoVariable(SECURITY_SCHEMES[i][2])
           => /\ SchemeExample(SECURITY_SCHEMES[i][1], SECURITY_SCHEMES[i][2]) = Ok(<<>>)
              /\ ApplyScheme(Unsecured, SECURITY_SCHEMES[i][1]) = Unsecured
    /\ AssignedNames(envExample)
         = AssignedNames(generateEnvExample(Config, SupportedSchemes(SECURITY_SCHEMES)).val)
    /\ \A r \in 1..Len(requests) :
         RequiresOnlyFlows(ToolOfRequest(requests[r]))
           => IF requests[r].config.method \in {GET, DELETE}
                THEN /\ requests[r].config.headers = headers
                     /\ KeySet(requests[r].config.params) \subseteq ArgumentNames
                ELSE /\ requests[r].config.headers
                          = Put(headers, ContentType,
                                <<"a","p","p","l","i","c","a","t","i","o","n","/","j","s","o","n">>)
                     /\ ~Has(requests[r].config, "params")

\* a server with static API_HEADERS has sent two requests, one for a GET tool
\* and one for a POST tool, each requiring only oauth2 or openIdConnect schemes
C15_Witness ==
  /\ stage = "serving"
  /\ headers # <<>>
  /\ Len(requests) = 2
  /\ RequiresOnlyFlows(ToolOfRequest(requests[1]))
  /\ RequiresOnlyFlows(ToolOfRequest(requests[2]))
  /\ requests[1].config.method = GET
  /\ requests[2].config.method = POST
  /\ requests[1].config.headers = headers
  /\ \E i \in 1..Len(SECURITY_SCHEMES) : SECURITY_SCHEMES[i][2].type = "openIdConnect"

\* ---- C16: the required names of a tool

NoDuplicates(names) ==
  \A a, b \in 1..Len(names) : names[a] = names[b] => a = b

\* C16 as claimed: no property name occurs more than once in
\* inputSchema.required of a produced tool
C16_RequiredHasNoDuplicates ==
  pc = "returned" =>
    \A i \in 1..Len(result.tools) : NoDuplicates(result.tools[i].inputSchema.required)

\* ---- C17: the identifier of a tool

\* the characters [A-Za-z0-9-]
Alphanumerics ==
  {"a","b","c","d","e","f","g","h","i","j","k","l","m","n","o","p","q","r","s","t","u",
   "v","w","x","y","z","A","B","C","D","E","F","G","H","I","J","K","L","M","N","O","P",
   "Q","R","S","T","U","V","W","X","Y","Z","0","1","2","3","4","5","6","7","8","9"}

Dashed(c) == IF c \in Alphanumerics \cup {"-"} THEN c ELSE "-"

RECURSIVE CleanedFrom(_, _)

\* the path from character i on: braces dropped, every other character dashed
CleanedFrom(path, i) ==
  IF i > Len(path) THEN <<>>
  ELSE IF path[i] \in {"{", "}"} THEN CleanedFrom(path, i + 1)
  ELSE <<Dashed(path[i])>> \o CleanedFrom(path, i + 1)

\* the identifier the derivation rule gives for a verb and a path template
ExpectedId(verb, path) ==
  [i \in 1..Len(verb) |-> Dashed(toUpperCase(verb)[i])]
    \o <<"-">>
    \o CleanedFrom(path, IF Len(path) > 0 /\ path[1] = "/" THEN 2 ELSE 1)

\* C17: the id of every produced tool is the uppercased verb, "-", and the
\* path without one leading "/" and without braces, every character outside
\* [A-Za-z0-9-] replaced by "-"; so it has only characters of [A-Za-z0-9-]
\* and starts with the tool's uppercase method
C17_ToolIdDerivation ==
  pc = "returned" =>
    \A i \in 1..Len(result.tools) :
       /\ result.tools[i].id
            = ExpectedId(Operations(spec)[i].method, Operations(spec)[i].path)
       /\ Range(result.tools[i].id) \subseteq Alphanumerics \cup {"-"}
       /\ SubSeq(result.tools[i].id, 1, Len(result.tools[i].method))
            = result.tools[i].method
       /\ result.tools[i].method = toUpperCase(Operations(spec)[i].method)

\* a tool compiled under a capitalized verb for a path with two leading
\* slashes: only the first slash is removed
C17_Witness ==
  /\ pc = "returned"
  /\ Len(result.tools) = 1
  /\ Operations(spec)[1].method = <<"P","o","S","T">>
  /\ Operations(spec)[1].path = <<"/","/","x">>
  /\ result.tools[1].id = <<"P","O","S","T","-","-","x">>

\* ---- C18: the entries of a path item that yield a tool

\* the entries the loops have passed: every entry of the path items before
\* pathIdx and the entries of the current item before methodIdx
PassedEntries ==
  EntriesFrom(SubSeq(spec.paths, 1, pathIdx - 1), 1)
    \o (IF pathIdx <= Len(spec.paths)
          THEN SubSeq(ItemEntries(spec.paths[pathIdx][1], spec.paths[pathIdx][2]),
                      1, methodIdx - 1)
          ELSE <<>>)

\* the key is a recognized verb, in any case of its letters, and the value is
\* not null
UnderRecognizedVerb(e) ==
  /\ toLowerCase(e.method)
       \in {<<"g","e","t">>, <<"p","o","s","t">>, <<"p","u","t">>,
            <<"d","e","l","e","t","e">>, <<"p","a","t","c","h">>,
            <<"o","p","t","i","o","n","s">>, <<"h","e","a","d">>}
  /\ e.op # Null

\* C18: while generateTools loops and when it has returned, the tools pushed
\* so far are, in order, one for each entry passed whose key is one of get,
\* post, put, delete, patch, options, head (in any letter case) and whose
\* value is not null; `parameters` and every other key yield no tool
C18_ToolsAreEntriesUnderVerbs ==
  (pc \in {"loop", "returned"} /\ Has(spec, "paths")) =>
    /\ Len(toolList) = Len(SelectSeq(PassedEntries, UnderRecognizedVerb))
    /\ \A i \in 1..Len(toolList) :
         /\ toolList[i].path = SelectSeq(PassedEntries, UnderRecognizedVerb)[i].path
         /\ toolList[i].method
              = toUpperCase(SelectSeq(PassedEntries, UnderRecognizedVerb)[i].method)

\* a returned document of two path items: summary, servers and an extension
\* key around head in one, a null get before patch in the other; two tools
C18_Witness ==
  /\ pc = "returned"
  /\ Has(spec, "paths")
  /\ Len(spec.paths) = 2
  /\ Len(PassedEntries) = 6
  /\ Len(toolList) = 2
  /\ \E i \in 1..6 : PassedEntries[i].method = <<"s","u","m","m","a","r","y">>
  /\ \E i \in 1..6 : PassedEntries[i].method = GET /\ PassedEntries[i].op = Null
  /\ toolList[2].method \in {toUpperCase(HEAD), toUpperCase(PATCH)}

\* ---- C19: request-body properties declared directly

\* the last len names of a list
Suffix(names, len) == SubSeq(names, Len(names) - len + 1, Len(names))

DeclaredRequired(schema) == IF Has(schema, "required") THEN schema.required ELSE <<>>

\* C19 as claimed: every property a request body declares directly is stored
\* in inputSchema.properties as the parameter merge would store a schema of
\* its shape (type or "string", description, enum when present, items for an
\* array), and inputSchema.required ends with the body schema's required list
C19_BodyPropertyMergedLikeParameter ==
  pc = "returned" =>
    \A i \in 1..Len(result.tools) :
       DirectBody(Operations(spec)[i]) =>
         /\ \A k \in 1..Len(BodySchema(Operations(spec)[i]).properties) :
              SchemaNode(spec,
                         BodySchema(Operations(spec)[i]).properties[k][2],
                         Get(result.tools[i].inputSchema.properties,
                             BodySchema(Operations(spec)[i]).properties[k][1]).description,
                         0)
                = Ok(Get(result.tools[i].inputSchema.properties,
                         BodySchema(Operations(spec)[i]).properties[k][1]))
         /\ Len(result.tools[i].inputSchema.required)
              >= Len(DeclaredRequired(BodySchema(Operations(spec)[i])))
         /\ Suffix(result.tools[i].inputSchema.required,
                   Len(DeclaredRequired(BodySchema(Operations(spec)[i]))))
              = DeclaredRequired(BodySchema(Operations(spec)[i]))

\* ---- C20: verbs without a request-body merge

\* C20: the input schema of a tool compiled for an operation under get,
\* delete, options or head that declares a requestBody is the result of the
\* parameter merge alone
C20_BodyIgnoredOutsidePostPutPatch ==
  pc = "returned" =>
    \A i \in 1..Len(result.tools) :
       (result.tools[i].method \in {<<"G","E","T">>, <<"D","E","L","E","T","E">>,
                                    <<"O","P","T","I","O","N","S">>, <<"H","E","A","D">>}
          /\ Has(Operations(spec)[i].op, "requestBody"))
       => Ok(result.tools[i].inputSchema)
            = MergeParameters(spec, ParametersOf(Operations(spec)[i].op), 1,
                              emptyInputSchema)

\* a tool compiled under delete for an operation with a required parameter
\* and a request body that declares properties and required names of its own
C20_Witness ==
  /\ pc = "returned"
  /\ Len(result.tools) = 1
  /\ result.tools[1].method = <<"D","E","L","E","T","E">>
  /\ Has(Operations(spec)[1].op, "requestBody")
  /\ Has(Operations(spec)[1].op.requestBody, "content")
  /\ Has(Operations(spec)[1].op.requestBody.content, "application/json")
  /\ Has(Operations(spec)[1].op.requestBody.content["application/json"].schema,
         "required")
  /\ result.tools[1].inputSchema.required = <<"petId">>
  /\ KeySet(result.tools[1].inputSchema.properties) = {"petId", "limit"}

\* ---- C21: the security of a tool

\* C21: the security of every produced tool is the `security` its operation
\* declares, an empty list included; without one, the top-level `security`
\* of the document; without either, the empty list
C21_SecurityOfOperationElseDocument ==
  pc = "returned" =>
    \A i \in 1..Len(result.tools) :
       /\ "security" \in DOMAIN Operations(spec)[i].op
            => result.tools[i].security = Operations(spec)[i].op.security
       /\ ("security" \notin DOMAIN Operations(spec)[i].op
             /\ "security" \in DOMAIN spec)
            => result.tools[i].security = spec.security
       /\ ("security" \notin DOMAIN Operations(spec)[i].op
             /\ "security" \notin DOMAIN spec)
            => result.tools[i].security = <<>>

\* a tool whose operation declares an empty list in a document with a
\* top-level requirement: the tool requires nothing
C21_Witness ==
  /\ pc = "returned"
  /\ Len(result.tools) = 1
  /\ "security" \in DOMAIN spec
  /\ spec.security # <<>>
  /\ "security" \in DOMAIN Operations(spec)[1].op
  /\ Operations(spec)[1].op.security = <<>>
  /\ result.tools[1].security = <<>>

\* ---- C22: the name of a tool

NonEmptyText(o, k) == k \in DOMAIN o /\ Len(o[k]) > 0

\* C22: the name of every produced tool is its operation's operationId when
\* that is not empty, else its summary when that is not empty, else the
\* uppercased verb, a blank and the path template as declared
C22_NameByPrecedence ==
  pc = "returned" =>
    \A i \in 1..Len(result.tools) :
       /\ NonEmptyText(Operations(spec)[i].op, "operationId")
            => result.tools[i].name = Operations(spec)[i].op.operationId
       /\ (~NonEmptyText(Operations(spec)[i].op, "operationId")
             /\ NonEmptyText(Operations(spec)[i].op, "summary"))
            => result.tools[i].name = Operations(spec)[i].op.summary
       /\ (~NonEmptyText(Operations(spec)[i].op, "operationId")
             /\ ~NonEmptyText(Operations(spec)[i].op, "summary"))
            => /\ result.tools[i].name
                    = result.tools[i].method \o <<" ">> \o Operations(spec)[i].path
               /\ result.tools[i].method = toUpperCase(Operations(spec)[i].method)

\* a tool named by its summary because its operationId is the empty string
C22_Witness ==
  /\ pc = "returned"
  /\ Len(result.tools) = 1
  /\ "operationId" \in DOMAIN Operations(spec)[1].op
  /\ Operations(spec)[1].op.operationId = <<>>
  /\ NonEmptyText(Operations(spec)[1].op, "summary")
  /\ result.tools[1].name = Operations(spec)[1].op.summary

\* ---- C23: the tools of the files written

\* C23 as claimed: the tools embedded in server.js are, in order, the tools
\* rendered into README.md and into types.d.ts
C23_SameToolsInEveryFile ==
  stage \in {"written", "serving"} =>
    /\ readme = generateReadme(TOOLS)
    /\ typeDefinitions = generateTypeDefinitions(TOOLS)

\* ---- C24: what makes a compile fail

\* the components a schema refers to, itself or through its items
SchemaRefs(schema) ==
  (IF Truthy(schema, "ref") THEN {getComponentPath(schema.ref)} ELSE {})
    \cup (IF Has(schema, "items") /\ Truthy(schema.items, "ref")
            THEN {getComponentPath(schema.items.ref)}
            ELSE {})

\* the components the schemas of a media-type map refer to
ContentRefs(content) ==
  UNION {IF Has(content[t], "schema")
           THEN SchemaRefs(content[t].schema)
                  \cup (IF Has(content[t].schema, "properties")
                          THEN UNION {SchemaRefs(content[t].schema.properties[k][2]) :
                                        k \in 1..Len(content[t].schema.properties)}
                          ELSE {})
           ELSE {} : t \in DOMAIN content}

\* every component an operation names, whatever its verb
NamedByOperation(op) ==
  UNION {IF Has(ParametersOf(op)[i], "schema")
           THEN SchemaRefs(ParametersOf(op)[i].schema)
           ELSE {} : i \in 1..Len(ParametersOf(op))}
  \cup (IF Has(op, "requestBody") /\ Has(op.requestBody, "content")
          THEN ContentRefs(op.requestBody.content)
          ELSE {})

\* every component a declared component names
NamedByComponents(doc) ==
  IF Has(doc, "components") /\ Has(doc.components, "schemas")
    THEN UNION {ComponentRefs(doc, n) : n \in DOMAIN doc.components.schemas}
    ELSE {}

\* each reference of the document names a component of components.schemas
EveryRefDeclared(doc) ==
  /\ \A n \in NamedByComponents(doc) : Declared(doc, n)
  /\ \A i \in 1..Len(Operations(doc)) :
       \A n \in NamedByOperation(Operations(doc)[i].op) : Declared(doc, n)

\* C24 as claimed: generateTools ends by an exception only for a document in
\* which some reference names a component that components.schemas lacks
C24_OnlyMissingComponentIsFatal ==
  pc = "threw" => ~EveryRefDeclared(spec)



\* ------------------------------------------------------------------ C25

\* C25: the eight writes main issues together are independent. The contents
\* are fixed once the writes are issued (no later step changes what was
\* generated), and in every order in which the writes complete or fail each
\* file whose write completed holds exactly the content generated for it,
\* whatever happened to the other writes.
C25_WritesAreIndependent ==
  /\ [](\A f \in GeneratedFiles :
          (writes # <<>> /\ writes[f] = "done") =>
            (f \in DOMAIN outputDir /\ outputDir[f] = ContentOf(f)))
  /\ [](\A f \in DOMAIN outputDir : writes[f] = "done")
  /\ [][stage # "compile" =>
          UNCHANGED <<TOOLS, SECURITY_SCHEMES, envExample, readme, typeDefinitions>>]_vars

\* two writes listed late completed before the first one listed failed, and
\* a third never ended: the two files hold their own contents
C25_Witness ==
  /\ stage = "failed"
  /\ TOOLS # <<>>
  /\ writes # <<>>
  /\ writes["server.js"] = "failed"
  /\ writes["package.json"] = "cut"
  /\ writes["build.js"] = "done"
  /\ writes["README.md"] = "done"
  /\ outputDir["build.js"] = ContentOf("build.js")
  /\ outputDir["README.md"] = ContentOf("README.md")
  /\ DOMAIN outputDir = {"build.js", "README.md"}

\* ------------------------------------------------------------------ C26

AllWritten == writes # <<>> /\ \A f \in GeneratedFiles : writes[f] = "done"

SomeWriteFailed == writes # <<>> /\ \E f \in GeneratedFiles : writes[f] = "failed"

\* C26: main reports success (true, exit code 0, the success message) only
\* when the document loaded, generateTools returned and all eight writes
\* succeeded, and it reports failure only when one of these did not happen;
\* once main has ended the two are equivalent. A single failed write makes
\* main report failure, and the files whose writes had completed are still
\* in the output directory.
C26_SuccessIffAllWritten ==
  /\ report = Succeeded => (pc = "returned" /\ AllWritten)
  /\ report = Failed => ~(pc = "returned" /\ AllWritten)
  /\ report = Running <=> stage \in {"compile", "writing"}
  /\ report # Running => (report.success <=> report.exitCode = 0)
  /\ SomeWriteFailed =>
       /\ report = Failed
       /\ stage = "failed"
       /\ \A f \in GeneratedFiles :
            writes[f] = "done" => (f \in files /\ f \in DOMAIN outputDir)

\* the write of the last file failed after the seven others had completed
C26_Witness ==
  /\ SomeWriteFailed
  /\ writes["build.js"] = "failed"
  /\ files = GeneratedFiles \ {"build.js"}
  /\ report = Failed


\* ------------------------------------------------------------------ C27

\* C27: no log message reaches the client before notifications/initialized
\* has been handled. While isConnected is false nothing has been sent;
\* isConnected becomes true only in the step of the initialized handler and
\* never returns to false; a step that sends a message starts with
\* isConnected true, so the messages logged during construction, start-up
\* and the initialized handler itself are dropped.
C27_NothingSentBeforeInitialized ==
  /\ [](~isConnected => sentLogs = <<>>)
  /\ [][isConnected => isConnected']_vars
  /\ [][sentLogs' # sentLogs => isConnected]_vars
  /\ [][(~isConnected /\ isConnected') =>
          /\ stage = "serving"
          /\ logged' = Append(logged,
                              Entry("debug", "Handling notifications/initialized request",
                                    <<>>))]_vars

\* a handler ran in debug mode before the handshake ended and another after
\* it: only the later one's messages were sent
C27_Witness ==
  /\ isConnected
  /\ Len(logged) >= 6
  /\ logged[1].message = "Initialized tools"
  /\ logged[4].message = "Handling ListTools request"
  /\ logged[5].message = "Handling notifications/initialized request"
  /\ Len(sentLogs) >= 1
  /\ sentLogs[1] = logged[6]
  /\ Len(sentLogs) = Len(logged) - 5


\* ------------------------------------------------------------------ C28

IsErrorReply(r) == Has(r, "error") /\ Has(r.error, "message")

IsTextReply(r) ==
  /\ Has(r, "content")
  /\ Len(r.content) = 1
  /\ r.content[1].type = "text"
  /\ Has(r.content[1].text, "json")

\* a step in which the CallTool handler ran
CallToolHandled ==
  /\ Len(logged') > Len(logged)
  /\ logged'[Len(logged) + 1].message = "Handling CallTool request"

\* the tools the claim's rule selects for request.params: the one with the
\* id given, else the first in list order with the name given
Chosen(params) ==
  IF Given(params, "id") THEN {i \in 1..Len(TOOLS) : TOOLS[i].id = params.id}
  ELSE IF Given(params, "name") /\ \E i \in 1..Len(TOOLS) : TOOLS[i].name = params.name
    THEN {First({i \in 1..Len(TOOLS) : TOOLS[i].name = params.name})}
  ELSE {}

AnsweredWithError ==
  /\ Len(replies') = Len(replies) + 1
  /\ IsErrorReply(replies'[Len(replies')])
  /\ pending' = pending

\* the step is what the rule prescribes for params
ConformsTo(params) ==
  /\ logged'[Len(logged) + 1].data = IdOrName(params)
  /\ IF Chosen(params) = {}
       THEN AnsweredWithError
       ELSE \/ AnsweredWithError
            \/ /\ replies' = replies
               /\ Len(pending') = Len(pending) + 1
               /\ \A i \in Chosen(params) : pending'[Len(pending')].toolId = TOOLS[i].id

\* C28: the CallTool handler never throws. Every reply it gives is an error
\* object or one text item holding the JSON text of the API's data; the tool
\* is the one with the request's id when an id is given, else the first in
\* list order with the request's name; a request that selects no tool, or
\* whose id no tool has, is answered with an error object, and so is a call
\* of the API that fails, while a call that succeeds is answered with the
\* text item.
C28_CallToolAlwaysAnswers ==
  /\ [](\A i \in 1..Len(replies) :
          Has(replies[i], "tools") \/ IsErrorReply(replies[i]) \/ IsTextReply(replies[i]))
  /\ [][CallToolHandled => \E params \in CallMenu : ConformsTo(params)]_vars
  /\ [][Len(pending') < Len(pending) =>
          /\ Len(replies') = Len(replies) + 1
          /\ IF logged'[Len(logged')].message = "Response status"
               THEN IsTextReply(replies'[Len(replies')])
               ELSE IsErrorReply(replies'[Len(replies')])]_vars

\* a request with an id no tool has and the name of a tool was answered with
\* an error, a tool was then called by its name, and the API's data came
\* back as one text item
C28_Witness ==
  /\ Len(replies) = 2
  /\ IsErrorReply(replies[1])
  /\ replies[1].error.message.text = "Tool details not found for ID"
  /\ IsTextReply(replies[2])
  /\ Len(requests) = 1
  /\ \E i \in 1..Len(logged) :
       /\ logged[i].message = "Handling CallTool request"
       /\ \E j \in 1..Len(TOOLS) : logged[i].data = TOOLS[j].name


\* ------------------------------------------------------------------ C29

\* the argument's placeholder occurs in the path of the tool
InPath(tool, entry) == includes(tool.path, Placeholder(entry[1]))

\* the arguments of request r that are not path parameters, in order
Remaining(r) ==
  SelectSeq(r.arguments, LAMBDA entry : ~InPath(ToolOfRequest(r), entry))

ContentTypeJson ==
  <<"a","p","p","l","i","c","a","t","i","o","n","/","j","s","o","n">>

\* request r carries the arguments as the claim says
SentAsClaimed(r) ==
  /\ \A i \in 1..Len(r.arguments) :
       InPath(ToolOfRequest(r), r.arguments[i]) =>
         /\ includes(r.config.url, encodeURIComponent(r.arguments[i][2]))
         /\ ~includes(r.config.url, Placeholder(r.arguments[i][1]))
         /\ ~HasKey(ParamsOr(r.config), r.arguments[i][1])
         /\ Has(r.config, "data") => ~HasKey(r.config.data, r.arguments[i][1])
  /\ IF ToolOfRequest(r).method \in {toUpperCase(GET), toUpperCase(DELETE)}
       THEN /\ ~Has(r.config, "data")
            /\ Has(r.config, "params")
            /\ \A i \in 1..Len(Remaining(r)) :
                 /\ HasKey(r.config.params, Remaining(r)[i][1])
                 /\ Get(r.config.params, Remaining(r)[i][1]) = Remaining(r)[i][2]
       ELSE /\ Has(r.config, "data")
            /\ r.config.data = Remaining(r)
            /\ HasKey(r.config.headers, <<"C","o","n","t","e","n","t","-","T","y","p","e">>)
            /\ Get(r.config.headers, <<"C","o","n","t","e","n","t","-","T","y","p","e">>)
                 = ContentTypeJson
            /\ \A i \in 1..Len(r.arguments) :
                 ~HasKey(ParamsOr(r.config), r.arguments[i][1])

\* C29: in every request handed to axios, each argument whose placeholder
\* occurs in the tool's path has been put, URI-encoded, in the place of the
\* placeholder and is not among the request parameters; the other arguments
\* are the query parameters when the tool's method is GET or DELETE and the
\* JSON body for every other method; and the caller's arguments object is
\* as the client sent it.
C29_ArgumentsIntoPathQueryOrBody ==
  stage = "serving" =>
    \A k \in 1..Len(requests) :
      /\ requests[k].arguments \in ArgumentsMenu \cup {<<>>}
      /\ SentAsClaimed(requests[k])

\* an OPTIONS tool was called with a path argument holding a slash and one
\* more argument, and a GET tool with an argument its path does not name
C29_Witness ==
  /\ Len(requests) = 2
  /\ ToolOfRequest(requests[1]).method = toUpperCase(OPTIONS)
  /\ includes(requests[1].config.url, <<"x","%","2","F","y">>)
  /\ requests[1].config.data = << <<<<"l","i","m","i","t">>, <<"1","0">>>> >>
  /\ Len(requests[1].arguments) = 2
  /\ ToolOfRequest(requests[2]).method = toUpperCase(GET)
  /\ HasKey(requests[2].config.params, <<"b">>)
  /\ Get(requests[2].config.params, <<"b">>) = <<"7">>


\* ------------------------------------------------------------------ C30

\* scheme S is declared with a supported type and every variable it needs
\* is set
Effective(S) ==
  /\ HasKey(SECURITY_SCHEMES, S)
  /\ RequiredEnvNames(S, Get(SECURITY_SCHEMES, S)) # <<>>
  /\ \A n \in Range(RequiredEnvNames(S, Get(SECURITY_SCHEMES, S))) : EnvHas(n)

\* the credential of an effective scheme: where it goes, under which name,
\* and its value
CredentialOf(S) ==
  IF IsApiKey(Get(SECURITY_SCHEMES, S))
    THEN [where |-> IF Has(Get(SECURITY_SCHEMES, S), "in")
                      THEN Get(SECURITY_SCHEMES, S).in ELSE "nowhere",
          name |-> Get(SECURITY_SCHEMES, S).name,
          value |-> Get(env, RequiredEnvNames(S, Get(SECURITY_SCHEMES, S))[1])]
  ELSE IF IsHttp(Get(SECURITY_SCHEMES, S), "bearer")
    THEN [where |-> "header", name |-> Authorization,
          value |-> <<"B","e","a","r","e","r"," ">>
                      \o Get(env, RequiredEnvNames(S, Get(SECURITY_SCHEMES, S))[1])]
  ELSE [where |-> "header", name |-> Authorization,
        value |-> <<"B","a","s","i","c"," ">>
                    \o base64(Get(env, RequiredEnvNames(S, Get(SECURITY_SCHEMES, S))[1])
                              \o <<":">>
                              \o Get(env, RequiredEnvNames(S, Get(SECURITY_SCHEMES, S))[2]))]

\* the positions in the list of schemes whose credential goes to `where`
\* under `name`
Setting(schemes, where, name) ==
  {k \in 1..Len(schemes) :
     /\ Effective(schemes[k])
     /\ CredentialOf(schemes[k]).where = where
     /\ CredentialOf(schemes[k]).name = name}

Latest(positions) == CHOOSE k \in positions : \A j \in positions : j <= k

\* request r carries the credentials of all the schemes in the list
CarriesAll(r, schemes) ==
  /\ \A k \in 1..Len(schemes) :
       Effective(schemes[k]) =>
         /\ CredentialOf(schemes[k]).where = "header"
              => HasKey(r.config.headers, CredentialOf(schemes[k]).name)
         /\ CredentialOf(schemes[k]).where = "query"
              => HasKey(ParamsOr(r.config), CredentialOf(schemes[k]).name)
  /\ \A i \in 1..Len(headers) : HasKey(r.config.headers, headers[i][1])
  /\ \A i \in 1..Len(r.config.headers) :
       IF Setting(schemes, "header", r.config.headers[i][1]) # {}
         THEN r.config.headers[i][2]
                = CredentialOf(schemes[Latest(Setting(schemes, "header",
                                                      r.config.headers[i][1]))]).value
         ELSE \/ /\ HasKey(headers, r.config.headers[i][1])
                 /\ r.config.headers[i][2] = Get(headers, r.config.headers[i][1])
              \/ /\ r.config.headers[i][1] = <<"C","o","n","t","e","n","t","-","T","y","p","e">>
                 /\ Has(r.config, "data")
  /\ \A i \in 1..Len(ParamsOr(r.config)) :
       Setting(schemes, "query", r.config.params[i][1]) # {}
         => \/ r.config.params[i][2]
                 = CredentialOf(schemes[Latest(Setting(schemes, "query",
                                                       r.config.params[i][1]))]).value
            \/ HasKey(r.arguments, r.config.params[i][1])

\* C30: every request handed to axios carries the credential of every scheme
\* of every alternative of its tool whose variables are set, not those of
\* one alternative only; a header or query parameter that several schemes set
\* holds the value of the last of them in declaration order; and a header
\* set by a scheme replaces the static API_HEADERS entry of the same name,
\* while the other static headers are sent as parsed.
C30_EveryAlternativeApplied ==
  stage = "serving" =>
    \A k \in 1..Len(requests) :
      CarriesAll(requests[k], SchemesOf(ToolOfRequest(requests[k]).security, 1))

\* a tool with the alternatives basic and bearer was called with both sets of
\* variables set and a static Authorization header: the bearer token was
\* sent; and a tool with a header api key was called while API_HEADERS names
\* the same header: the key from the environment was sent
C30_Witness ==
  /\ Len(requests) = 2
  /\ ToolOfRequest(requests[1]).security = << <<basicAuth>>, <<SchemeB>> >>
  /\ Effective(basicAuth)
  /\ Effective(SchemeB)
  /\ HasKey(headers, Authorization)
  /\ Get(requests[1].config.headers, Authorization) = CredentialOf(SchemeB).value
  /\ ToolOfRequest(requests[2]).security = << <<my_api_key>> >>
  /\ Effective(my_api_key)
  /\ HasKey(headers, api_key)
  /\ Get(requests[2].config.headers, api_key) = CredentialOf(my_api_key).value
  /\ Get(requests[2].config.headers, api_key) # Get(headers, api_key)
  /\ Get(requests[2].config.headers, Authorization) = Get(headers, Authorization)

====
